---- MODULE Spec2Model ----
(***************************************************************************)
(* The worker-thread stream pipeline of stremio-jackett-enhanced (v1.7.1): *)
(* the stream handler of the addon server, processTorrentsInWorker and the *)
(* message handler of torrentProcessorWorker.js.                           *)
(*                                                                         *)
(* A JavaScript string is a sequence of one-character strings.  A          *)
(* JavaScript value is a record [t, s, n]: t is its type ("undef", "null", *)
(* "str", "num"), s the characters of a string, n the value of a number.   *)
(***************************************************************************)
EXTENDS Integers, Sequences, FiniteSets, TLC

(***************************************************************************)
(* Bounds of the model.                                                    *)
(***************************************************************************)
\* longest batch of Jackett results handed to the worker
MaxBatch == 3
\* largest configured MAX_STREAMS
MaxCap == 2
\* /manifest.json requests served beside one /stream request
MaxManifests == 1
\* Jackett answers with results while the request holds fewer results than this
MaxFetched == 6

\* the calls of fetchAndCachePublicTrackers under the clock
MaxTrackerCalls == 3

\* the steps of the clock
MaxTicks == 3

(***************************************************************************)
(* Characters and strings.                                                 *)
(***************************************************************************)
UpperChars == <<"A","B","C","D","E","F","G","H","I","J","K","L","M","N","O","P","Q","R","S","T","U","V","W","X","Y","Z">>
LowerChars == <<"a","b","c","d","e","f","g","h","i","j","k","l","m","n","o","p","q","r","s","t","u","v","w","x","y","z">>
DigitChars == <<"0","1","2","3","4","5","6","7","8","9">>

SeqRange(s) == {s[i] : i \in 1..Len(s)}

Min(S) == CHOOSE x \in S : \A y \in S : x <= y

\* the least element of a set of positions, 0 for the empty set
MinOrZero(S) == IF S = {} THEN 0 ELSE Min(S)

\* \d
IsDigit(c) == c \in SeqRange(DigitChars)
\* \w
IsWordChar(c) == c \in SeqRange(UpperChars) \cup SeqRange(LowerChars) \cup SeqRange(DigitChars) \cup {"_"}
\* \s
IsSpace(c) == c = " "

PosIn(s, c) == CHOOSE i \in 1..Len(s) : s[i] = c

ToLowerChar(c) == IF c \in SeqRange(UpperChars) THEN LowerChars[PosIn(UpperChars, c)] ELSE c
ToUpperChar(c) == IF c \in SeqRange(LowerChars) THEN UpperChars[PosIn(LowerChars, c)] ELSE c

\* String.prototype.toLowerCase / toUpperCase
toLowerCase(s) == [i \in 1..Len(s) |-> ToLowerChar(s[i])]
toUpperCase(s) == [i \in 1..Len(s) |-> ToUpperChar(s[i])]

\* a pattern element is a literal character, "\\d" (a digit) or "\\s" (whitespace)
PatCharMatches(p, c) ==
    IF p = "\\d" THEN IsDigit(c)
    ELSE IF p = "\\s" THEN IsSpace(c)
    ELSE p = c

\* pattern pat matches s at position i (1-based)
PatMatchAt(s, i, pat) ==
    /\ i >= 1
    /\ i + Len(pat) - 1 <= Len(s)
    /\ \A k \in 1..Len(pat) : PatCharMatches(pat[k], s[i + k - 1])

\* String.prototype.indexOf, 1-based; 0 when pat does not occur
IndexOf(s, pat) == MinOrZero({i \in 1..(Len(s) - Len(pat) + 1) : PatMatchAt(s, i, pat)})

\* String.prototype.includes
Includes(s, pat) == IndexOf(s, pat) # 0

\* Array.prototype.includes / indexOf (1-based, 0 when absent)
ArrIndexOf(a, x) == MinOrZero({i \in 1..Len(a) : a[i] = x})

ArrIncludes(a, x) == ArrIndexOf(a, x) # 0

\* String.prototype.trim
Trim(s) ==
    LET keep == {i \in 1..Len(s) : ~IsSpace(s[i])}
    IN IF keep = {} THEN <<>>
       ELSE SubSeq(s, Min(keep), CHOOSE j \in keep : \A k \in keep : k <= j)

\* s.replace(pat, rep) with a string pattern: the first occurrence only
ReplaceAt(s, i, len, rep) ==
    IF i = 0 THEN s
    ELSE SubSeq(s, 1, i - 1) \o rep \o SubSeq(s, i + len, Len(s))

ReplaceFirst(s, pat, rep) == ReplaceAt(s, IndexOf(s, pat), Len(pat), rep)

\* the word boundary \b between s[j-1] and s[j]
WordBoundaryAt(s, j) ==
    LET before == j >= 2 /\ j - 1 <= Len(s) /\ IsWordChar(s[j - 1])
        after == j >= 1 /\ j <= Len(s) /\ IsWordChar(s[j])
    IN before # after

\* parseInt(digits, 10) of a string of digits
RECURSIVE ParseDigits(_)
ParseDigits(d) ==
    IF Len(d) = 0 THEN 0
    ELSE 10 * ParseDigits(SubSeq(d, 1, Len(d) - 1)) + (PosIn(DigitChars, d[Len(d)]) - 1)

\* String(n) of a natural number
RECURSIVE NumToString(_)
NumToString(n) ==
    IF n < 10 THEN <<DigitChars[n + 1]>>
    ELSE NumToString(n \div 10) \o <<DigitChars[(n % 10) + 1]>>

\* String.prototype.padStart(len, '0')
RECURSIVE PadStart0(_, _)
PadStart0(s, len) == IF Len(s) >= len THEN s ELSE PadStart0(<<"0">> \o s, len)

\* length of the first alternative of alts (in order) that matches s at i and is
\* followed by a word boundary when wantBoundary; 0 when no alternative matches
FirstAltLen(alts, hits) == IF hits = {} THEN 0 ELSE Len(alts[Min(hits)])

AltMatchLen(s, i, alts, wantBoundary) ==
    FirstAltLen(alts, {k \in 1..Len(alts) :
                          /\ PatMatchAt(s, i, alts[k])
                          /\ (wantBoundary => WordBoundaryAt(s, i + Len(alts[k])))})

\* s.replace(/(alt1|alt2|...)\b?/g, ' '): scan left to right from position i
RECURSIVE ReplaceAllAlts(_, _, _, _)
RECURSIVE ReplaceStep(_, _, _, _, _)
ReplaceAllAlts(s, i, alts, wantBoundary) ==
    IF i > Len(s) THEN <<>>
    ELSE ReplaceStep(s, i, alts, wantBoundary, AltMatchLen(s, i, alts, wantBoundary))

\* a match of length m at i becomes one space, else the character is kept
ReplaceStep(s, i, alts, wantBoundary, m) ==
    IF m > 0 THEN <<" ">> \o ReplaceAllAlts(s, i + m, alts, wantBoundary)
    ELSE <<s[i]>> \o ReplaceAllAlts(s, i + 1, alts, wantBoundary)

\* s.replace(/[chars of cls]+/g, ' '): every maximal run becomes one space
CollapseRuns(s, cls) ==
    LET keep == {i \in 1..Len(s) : s[i] \notin cls \/ i = 1 \/ s[i - 1] \notin cls}
        RECURSIVE Build(_)
        Build(i) ==
            IF i > Len(s) THEN <<>>
            ELSE IF i \in keep
                 THEN <<(IF s[i] \in cls THEN " " ELSE s[i])>> \o Build(i + 1)
                 ELSE Build(i + 1)
    IN Build(1)

\* positions of s where some alternative of alts matches; 0 when there is none
FirstMatchPos(s, alts, wantBoundary) ==
    MinOrZero({i \in 1..Len(s) : AltMatchLen(s, i, alts, wantBoundary) > 0})

\* length of the optional group (\s*(suffix))? tried at position j
SuffixAt(s, j, suffix, k) == IF PatMatchAt(s, k, suffix) THEN (k - j) + Len(suffix) ELSE 0

OptSuffixLen(s, j, suffix) ==
    IF suffix = <<>> THEN 0
    ELSE SuffixAt(s, j, suffix, Min({k \in j..(Len(s) + 1) : k > Len(s) \/ ~IsSpace(s[k])}))

\* s.match(/(alt1|alt2|...)(\s*(suffix))?/g): the matched substrings, left to right
RECURSIVE MatchAll(_, _, _, _)
RECURSIVE MatchStep(_, _, _, _, _)
RECURSIVE MatchTake(_, _, _, _, _)
MatchAll(s, i, alts, suffix) ==
    IF i > Len(s) THEN <<>>
    ELSE MatchStep(s, i, alts, suffix, AltMatchLen(s, i, alts, FALSE))

\* an alternative of length m matched at i: the optional suffix follows
MatchStep(s, i, alts, suffix, m) ==
    IF m > 0 THEN MatchTake(s, i, alts, suffix, m + OptSuffixLen(s, i + m, suffix))
    ELSE MatchAll(s, i + 1, alts, suffix)

MatchTake(s, i, alts, suffix, len) ==
    <<SubSeq(s, i, i + len - 1)>> \o MatchAll(s, i + len, alts, suffix)

(***************************************************************************)
(* JavaScript values.                                                      *)
(***************************************************************************)
Undef == [t |-> "undef", s |-> <<>>, n |-> 0]
Null == [t |-> "null", s |-> <<>>, n |-> 0]
Str(chars) == [t |-> "str", s |-> chars, n |-> 0]
Num(k) == [t |-> "num", s |-> <<>>, n |-> k]
JsTrue == [t |-> "bool", s |-> <<>>, n |-> 1]
JsFalse == [t |-> "bool", s |-> <<>>, n |-> 0]

\* ToBoolean
Truthy(v) ==
    CASE v.t = "str" -> v.s # <<>>
      [] v.t = "num" -> v.n # 0
      [] v.t = "bool" -> v.n # 0
      [] OTHER -> FALSE

\* a || b
JsOr(a, b) == IF Truthy(a) THEN a ELSE b

NaN == [t |-> "nan", s |-> <<>>, n |-> 0]

\* `${v}`
ToStr(v) ==
    CASE v.t = "str" -> v.s
      [] v.t = "num" -> NumToString(v.n)
      [] v.t = "null" -> <<"n","u","l","l">>
      [] v.t = "nan" -> <<"N","a","N">>
      [] v.t = "bool" -> IF v.n = 1 THEN <<"t","r","u","e">> ELSE <<"f","a","l","s","e">>
      [] OTHER -> <<"u","n","d","e","f","i","n","e","d">>

(***************************************************************************)
(* torrentProcessorWorker.js: helpers.                                     *)
(***************************************************************************)
simpleGet(obj, path, defaultValue) ==
    IF path \notin DOMAIN obj THEN defaultValue
    ELSE IF obj[path] # Undef THEN obj[path] ELSE defaultValue

\* /[\(\[](\d{4})[\)\]]/
BracketYearAlts == <<<<"(","\\d","\\d","\\d","\\d",")">>, <<"(","\\d","\\d","\\d","\\d","]">>, <<"[","\\d","\\d","\\d","\\d",")">>, <<"[","\\d","\\d","\\d","\\d","]">>>>

\* /\s(\d{4})$/
TrailingYearPat == <<"\\s","\\d","\\d","\\d","\\d">>

\* the alternatives of the release-tag expression, in the order of the source
ReleaseTags == <<
    <<"h","d","r","i","p">>, <<"w","e","b","r","i","p">>, <<"w","e","b","-","d","l">>, <<"x","2","6","4">>, <<"x","2","6","5">>, <<"h","2","6","4">>,
    <<"h","2","6","5">>, <<"a","a","c">>, <<"a","c","3">>, <<"d","t","s">>, <<"b","l","u","r","a","y">>, <<"d","v","d","r","i","p">>,
    <<"b","r","r","i","p">>, <<"b","d","r","i","p">>, <<"r","e","p","a","c","k">>, <<"p","r","o","p","e","r">>, <<"i","n","t","e","r","n","a","l">>, <<"i","t","a">>,
    <<"e","n","g">>, <<"d","u","b","b","e","d">>, <<"s","u","b","b","e","d">>, <<"m","u","l","t","i">>, <<"g","e","r","m","a","n">>, <<"f","r","e","n","c","h">>,
    <<"s","p","a","n","i","s","h">>, <<"h","i","n","d","i">>, <<"t","a","m","i","l">>, <<"k","o","r","e","a","n">>, <<"j","a","p","a","n","e","s","e">>, <<"c","h","i","n","e","s","e">>,
    <<"k","a","n","n","a","d","a">>, <<"m","a","l","a","y","a","l","a","m">>, <<"t","e","l","u","g","u">>, <<"7","2","0","p">>, <<"1","0","8","0","p">>, <<"2","1","6","0","p">>,
    <<"4","k">>, <<"u","h","d">>, <<"f","h","d">>, <<"m","p","4">>, <<"m","k","v">>, <<"a","v","i">>,
    <<"x","v","i","d">>, <<"h","e","v","c">>, <<"r","e","m","u","x">>, <<"e","x","t","e","n","d","e","d">>, <<"d","i","r","e","c","t","o","r","'","s"," ","c","u","t">>, <<"u","n","c","u","t">>,
    <<"u","n","r","a","t","e","d">>, <<"s","\\d","\\d","e","\\d","\\d">>, <<"s","\\d","\\d">>, <<"e","\\d","\\d">>, <<"f","r","e","e","l","e","e","c","h">>, <<"t","r","u","e">>,
    <<"d","d","p">>, <<"h","d","r">>, <<"d","t","s","-","h","d">>, <<"m","a">>, <<"a","t","m","o","s">>, <<"x","v","i","d">>,
    <<"a","v","1">>, <<"r","i","p">>, <<"b","y">>, <<"r","g">>, <<"u","h">>, <<"e","t","r","g">>,
    <<"e","t","h","d">>, <<"t","0","m">>, <<"w","a","r">>, <<"d","i","n">>, <<"h","u","r","t","o","m">>, <<"r","u","t","r","a","c","k","e","r">>,
    <<"g","e","n","e","r","a","l","f","i","l","m">>, <<"n","a","h","o","m">>, <<"e","d","g","e","2","0","2","0">>, <<"x","v","i">>, <<"m","p","3">>, <<"e","a","c","3">>,
    <<"s","u","b","s">>
>>

\* lines 39-49: the year and the title without it; by is where /[\(\[](\d{4})[\)\]]/
\* matches, 0 when it does not
ExtractYear(title, by) ==
    IF by > 0
    THEN [extractedYear |-> Num(ParseDigits(SubSeq(title, by + 1, by + 4))),
          title |-> Trim(ReplaceFirst(title, SubSeq(title, by, by + 5), <<>>))]
    ELSE IF PatMatchAt(title, Len(title) - 4, TrailingYearPat)
    THEN [extractedYear |-> Num(ParseDigits(SubSeq(title, Len(title) - 3, Len(title)))),
          title |-> Trim(ReplaceFirst(title, SubSeq(title, Len(title) - 4, Len(title)), <<>>))]
    ELSE [extractedYear |-> Null, title |-> title]

\* line 52: replace(/[^\w\s]/g, ' ')
PunctToSpace(lowered) ==
    [i \in 1..Len(lowered) |->
        IF IsWordChar(lowered[i]) \/ IsSpace(lowered[i]) THEN lowered[i] ELSE " "]

\* lines 57-59: replace(new RegExp(`\\s${extractedYear}\\s`, 'g'), ' ')
RemoveYear(standardized, extractedYear) ==
    IF Truthy(extractedYear)
    THEN ReplaceAllAlts(standardized, 1,
             <<(<<"\\s">> \o NumToString(extractedYear.n)) \o <<"\\s">>>>, FALSE)
    ELSE standardized

\* lines 51-63
StandardizeExtracted(found) ==
    [standardizedTitle |->
         Trim(CollapseRuns(
             RemoveYear(
                 ReplaceAllAlts(
                     Trim(CollapseRuns(PunctToSpace(toLowerCase(found.title)),
                                       {" ", ".", "-"})),
                     1, ReleaseTags, TRUE),
                 found.extractedYear),
             {" "})),
     extractedYear |-> found.extractedYear]

standardizeTitle(title) ==
    StandardizeExtracted(ExtractYear(title, FirstMatchPos(title, BracketYearAlts, FALSE)))

\* languageMap, in insertion order: <<key, language>>
languageMap == <<
    <<<<"e","n","g">>, <<"e","n","g","l","i","s","h">>>>, <<<<"e","n","g","l","i","s","h">>, <<"e","n","g","l","i","s","h">>>>,
    <<<<"h","i","n">>, <<"h","i","n","d","i">>>>, <<<<"h","i","n","d","i">>, <<"h","i","n","d","i">>>>,
    <<<<"t","a","m">>, <<"t","a","m","i","l">>>>, <<<<"t","a","m","i","l">>, <<"t","a","m","i","l">>>>,
    <<<<"m","a","l">>, <<"m","a","l","a","y","a","l","a","m">>>>, <<<<"m","a","l","a","y","a","l","a","m">>, <<"m","a","l","a","y","a","l","a","m">>>>,
    <<<<"k","a","n">>, <<"k","a","n","n","a","d","a">>>>, <<<<"k","a","n","n","a","d","a">>, <<"k","a","n","n","a","d","a">>>>,
    <<<<"t","e","l">>, <<"t","e","l","u","g","u">>>>, <<<<"t","e","l","u","g","u">>, <<"t","e","l","u","g","u">>>>,
    <<<<"c","h","n">>, <<"c","h","i","n","e","s","e">>>>, <<<<"c","h","i","n","e","s","e">>, <<"c","h","i","n","e","s","e">>>>,
    <<<<"k","o","r">>, <<"k","o","r","e","a","n">>>>, <<<<"k","o","r","e","a","n">>, <<"k","o","r","e","a","n">>>>,
    <<<<"s","p","a">>, <<"s","p","a","n","i","s","h">>>>, <<<<"s","p","a","n","i","s","h">>, <<"s","p","a","n","i","s","h">>>>,
    <<<<"g","e","r">>, <<"g","e","r","m","a","n">>>>, <<<<"g","e","r","m","a","n">>, <<"g","e","r","m","a","n">>>>,
    <<<<"j","p","n">>, <<"j","a","p","a","n","e","s","e">>>>, <<<<"j","a","p","a","n","e","s","e">>, <<"j","a","p","a","n","e","s","e">>>>,
    <<<<"u","k","r">>, <<"u","k","r","a","i","n","i","a","n">>>>, <<<<"u","k","r","a","i","n","i","a","n">>, <<"u","k","r","a","i","n","i","a","n">>>>,
    <<<<"i","t","a">>, <<"i","t","a","l","i","a","n">>>>, <<<<"i","t","a","l","i","a","n">>, <<"i","t","a","l","i","a","n">>>>,
    <<<<"f","r","e">>, <<"f","r","e","n","c","h">>>>, <<<<"f","r","e","n","c","h">>, <<"f","r","e","n","c","h">>>>,
    <<<<"d","u","o">>, <<"d","u","a","l","-","a","u","d","i","o">>>>,
    <<<<"m","u","l","t","i">>, <<"m","u","l","t","i","-","l","a","n","g","u","a","g","e">>>>
>>

\* the value of the first key, in insertion order, that the title includes
FirstLanguage(map, hits) == IF hits = {} THEN Null ELSE Str(map[Min(hits)][2])

LanguageIn(lowerTitle, map) ==
    FirstLanguage(map, {k \in 1..Len(map) :
                           \/ Includes(lowerTitle, map[k][1])
                           \/ Includes(lowerTitle, map[k][2])})

getTorrentLanguage(torrentTitle) == LanguageIn(toLowerCase(torrentTitle), languageMap)

\* /(\d{3,4}p|4k|uhd|fhd)/
ResolutionAlts == <<<<"\\d","\\d","\\d","\\d","p">>, <<"\\d","\\d","\\d","p">>, <<"4","k">>, <<"u","h","d">>, <<"f","h","d">>>>

\* /(remux|bluray|bdrip|web-dl|webrip|hdrip|hdtv|dvdrip|x264|x265|hevc|hdr|xvid|av1)/g
VideoQualityAlts == <<
    <<"r","e","m","u","x">>, <<"b","l","u","r","a","y">>, <<"b","d","r","i","p">>, <<"w","e","b","-","d","l">>, <<"w","e","b","r","i","p">>, <<"h","d","r","i","p">>, <<"h","d","t","v">>,
    <<"d","v","d","r","i","p">>, <<"x","2","6","4">>, <<"x","2","6","5">>, <<"h","e","v","c">>, <<"h","d","r">>, <<"x","v","i","d">>, <<"a","v","1">>>>

\* /(truehd|dts-hd|atmos|dts|eac3|ddp|ac3|aac|mp3|(\d\.\d)|(ch))(\s*(ma))?/g
AudioQualityAlts == <<
    <<"t","r","u","e","h","d">>, <<"d","t","s","-","h","d">>, <<"a","t","m","o","s">>, <<"d","t","s">>, <<"e","a","c","3">>, <<"d","d","p">>, <<"a","c","3">>, <<"a","a","c">>,
    <<"m","p","3">>, <<"\\d",".","\\d">>, <<"c","h">>>>

AudioSuffix == <<"m","a">>

\* a variant that takes the first match in title order
FirstMatched(matches, preferred, hits) ==
    IF Len(matches) = 0 THEN Null ELSE Str(matches[1])

\* the first entry of the ordered preference list found among the matches,
\* else the first match in title order, else null
PickPreferred(matches, preferred, hits) ==
    IF Len(matches) = 0 THEN Null
    ELSE IF hits # {} /\ preferred[Min(hits)] # <<>> THEN Str(preferred[Min(hits)])
    ELSE Str(matches[1])

PickQuality(matches, preferred) ==
    PickPreferred(matches, preferred,
                  {k \in 1..Len(preferred) : ArrIncludes(matches, preferred[k])})

\* the part of parseTorrentDetails that reads the title only
\* lines 148-154: the resolution matched at rpos, 4k, uhd and fhd read as 2160p
ResolutionText(rtext) ==
    IF rtext \in {<<"4","k">>, <<"u","h","d">>, <<"f","h","d">>} THEN Str(<<"2","1","6","0","p">>) ELSE Str(rtext)

ResolutionAt(lowerTitle, rpos) ==
    IF rpos = 0 THEN Null
    ELSE ResolutionText(SubSeq(lowerTitle, rpos,
             rpos + AltMatchLen(lowerTitle, rpos, ResolutionAlts, FALSE) - 1))

LowerTitleMatches(lowerTitle) ==
    [resolution |-> ResolutionAt(lowerTitle, FirstMatchPos(lowerTitle, ResolutionAlts, FALSE)),
     videoQualityMatches |-> MatchAll(lowerTitle, 1, VideoQualityAlts, <<>>),
     audioQualityMatches |-> MatchAll(lowerTitle, 1, AudioQualityAlts, AudioSuffix),
     language |-> LanguageIn(lowerTitle, languageMap)]

TitleMatches(torrentTitle) == LowerTitleMatches(toLowerCase(torrentTitle))

(***************************************************************************)
(* The inputs of the model: titles, Jackett results, metadata, requests    *)
(* and configurations.                                                     *)
(***************************************************************************)
TitleBluRay == <<"T","h","e",".","M","a","t","r","i","x",".","1","9","9","9",".","1","0","8","0","p",".","B","l","u","R","a","y",".","x","2","6","4","-","G","R","O","U","P">>
TitleWebRip == <<"T","h","e"," ","M","a","t","r","i","x"," ","1","9","9","9"," ","7","2","0","p"," ","W","E","B","R","i","p"," ","A","A","C">>
TitleRemux == <<"T","h","e"," ","M","a","t","r","i","x"," ","2","1","6","0","p"," ","R","E","M","U","X"," ","A","C","3">>
TitleDvd == <<"T","h","e"," ","M","a","t","r","i","x"," ","1","9","9","9"," ","4","8","0","p"," ","D","V","D","R","i","p">>
TitleEnglish == <<"T","h","e"," ","M","a","t","r","i","x"," ","1","0","8","0","p"," ","E","n","g","l","i","s","h"," ","x","2","6","5">>
TitleAc3 == <<"T","h","e",".","M","a","t","r","i","x",".","1","9","9","9",".","1","0","8","0","p",".","B","l","u","R","a","y",".","A","C","3">>
TitleWebDl == <<"T","h","e"," ","M","a","t","r","i","x"," ","1","9","9","9"," ","1","0","8","0","p"," ","W","E","B","-","D","L">>
TitleMatrix == <<"T","h","e"," ","M","a","t","r","i","x">>
ImdbMatrix == <<"t","t","0","1","3","3","0","9","3">>
TitleMatrixYear == <<"T","h","e"," ","M","a","t","r","i","x"," ","(","1","9","9","9",")">>
TitleReloaded == <<"T","h","e"," ","M","a","t","r","i","x"," ","R","e","l","o","a","d","e","d"," ","2","0","0","3"," ","7","2","0","p">>
TitleReloadedYear == <<"T","h","e"," ","M","a","t","r","i","x"," ","R","e","l","o","a","d","e","d"," ","(","2","0","0","3",")">>
TitleDotted == <<"T","h","e",".","M","a","t","r","i","x",".","1","9","9","9",".","1","0","8","0","p">>
TitleShow == <<"S","h","o","w"," ","N","a","m","e">>
TitleEpisode5 == <<"S","h","o","w",".","N","a","m","e",".","S","0","2","E","0","5",".","1","0","8","0","p",".","W","E","B","-","D","L">>
TitleEpisode6 == <<"S","h","o","w",".","N","a","m","e",".","S","0","2","E","0","6",".","1","0","8","0","p",".","W","E","B","-","D","L">>
TitleInception == <<"I","n","c","e","p","t","i","o","n"," ","2","0","1","0">>
TitleEmpty == <<>>

\* the titles the validator and the normalizer are called with on their own
\* a title with several video and audio tokens
TitleManyTokens == <<"T","h","e"," ","M","a","t","r","i","x"," ","2","1","6","0","p"," ","H","D","R"," ","x","2","6","5"," ","R","E","M","U","X"," ","5",".","1"," ","A","C","3"," ","D","T","S">>

\* the titles handed to parseTorrentDetails on its own
DetailTitles ==
    {TitleBluRay, TitleWebRip, TitleRemux, TitleDvd, TitleAc3, TitleWebDl, TitleMatrix,
     TitleManyTokens}

CallTitles ==
    {TitleMatrix, TitleMatrixYear, TitleReloaded, TitleReloadedYear, TitleDotted,
     TitleShow, TitleEpisode5, TitleEpisode6, TitleInception, TitleEmpty}

KnownTitles ==
    {TitleBluRay, TitleWebRip, TitleRemux, TitleDvd, TitleEnglish, TitleAc3, TitleWebDl,
     TitleMatrix, ImdbMatrix, TitleManyTokens} \cup CallTitles

\* standardizeTitle and TitleMatches, tabulated over the titles of the model
StandardizedTitles == [tt \in KnownTitles |-> standardizeTitle(tt)]

StandardizedTitle(title) == StandardizedTitles[title]

TitleMatchesTable == [tt \in KnownTitles |-> TitleMatches(tt)]

TitleMatchesOf(title) == TitleMatchesTable[title]

\* one Jackett result; a field that is Undef is absent from the object
BaseResult ==
    [Title |-> Str(TitleBluRay), InfoHash |-> Str(<<"A","B","C","1","2","3">>), MagnetUri |-> Undef,
     Resolution |-> Undef, Quality |-> Undef, AudioChannels |-> Undef, Language |-> Undef,
     Seeders |-> Num(2), Peers |-> Num(1), Size |-> Num(734003200),
     PublishedDate |-> Str(<<"2","0","2","4","-","0","1","-","0","2","T","0","0",":","0","0",":","0","0","Z">>), Tracker |-> Str(<<"i","d","x">>)]

\* ABC123, 1080p bluray, 2 seeders, 2024-01-02, declared Language english
ResultBluRay == [BaseResult EXCEPT !.Language = Str(<<"e","n","g","l","i","s","h">>)]
\* the same info-hash in lower case, 720p webrip, newer
ResultWebRip ==
    [BaseResult EXCEPT !.Title = Str(TitleWebRip), !.InfoHash = Str(<<"a","b","c","1","2","3">>),
                       !.Language = Str(<<"e","n","g","l","i","s","h">>),
                       !.PublishedDate = Str(<<"2","0","2","4","-","0","1","-","0","3","T","0","0",":","0","0",":","0","0","Z">>)]
\* the same info-hash, 480p (below the resolution floor), 5 MB
ResultDvd ==
    [BaseResult EXCEPT !.Title = Str(TitleDvd), !.InfoHash = Str(<<"a","b","c","1","2","3">>),
                       !.Seeders = Num(5), !.Size = Num(5242880)]
\* the same info-hash, Title: null
ResultNullTitle == [BaseResult EXCEPT !.Title = Null, !.InfoHash = Str(<<"a","b","c","1","2","3">>)]
\* identifier in the magnet URI only, 2160p remux, PublishedDate: null
ResultMagnet ==
    [BaseResult EXCEPT !.Title = Str(TitleRemux), !.InfoHash = Undef,
                       !.MagnetUri = Str(<<"m","a","g","n","e","t",":","?","x","t","=","u","r","n",":","b","t","i","h",":","D","E","F","4","5","6","&","d","n","=","x">>),
                       !.PublishedDate = Null]
\* English and 1080p in the title, declared Resolution 720p, unparsable PublishedDate
ResultEnglish ==
    [BaseResult EXCEPT !.Title = Str(TitleEnglish), !.InfoHash = Str(<<"0","a","1","b">>),
                       !.Resolution = Str(<<"7","2","0","p">>),
                       !.PublishedDate = Str(<<"n","o","t"," ","a"," ","d","a","t","e">>)]
\* a valid PublishedDate before 1970, 1500 MB
ResultOld ==
    [BaseResult EXCEPT !.InfoHash = Str(<<"7","7","f","f">>), !.Size = Num(1572864000),
                       !.PublishedDate = Str(<<"1","9","6","9","-","1","2","-","3","1","T","2","3",":","5","9",":","5","9","Z">>)]
\* 3 seeders, oldest 2024 date, 720p webrip
ResultSeeded ==
    [BaseResult EXCEPT !.Title = Str(TitleWebRip), !.InfoHash = Str(<<"b","e","e","f">>),
                       !.Language = Str(<<"e","n","g","l","i","s","h">>),
                       !.Seeders = Num(3), !.PublishedDate = Str(<<"2","0","2","4","-","0","1","-","0","1","T","0","0",":","0","0",":","0","0","Z">>)]
\* as ResultBluRay but for the audio codec in the title
ResultAc3 ==
    [BaseResult EXCEPT !.Title = Str(TitleAc3), !.InfoHash = Str(<<"a","c","3","f">>),
                       !.Language = Str(<<"e","n","g","l","i","s","h">>)]
\* as ResultBluRay but for the source in the title and one day less
ResultWebDl ==
    [BaseResult EXCEPT !.Title = Str(TitleWebDl), !.InfoHash = Str(<<"c","0","d","e">>),
                       !.PublishedDate = Str(<<"2","0","2","4","-","0","1","-","0","1","T","0","0",":","0","0",":","0","0","Z">>)]

\* neither InfoHash nor a btih: segment in the magnet URI
ResultNoHash ==
    [BaseResult EXCEPT !.InfoHash = Undef, !.MagnetUri = Str(<<"m","a","g","n","e","t",":","?","d","n","=","T","h","e","+","M","a","t","r","i","x">>)]
\* InfoHash and a magnet URI that carries another identifier, closed by a slash
ResultBothIds ==
    [BaseResult EXCEPT !.InfoHash = Str(<<"A","A","1","1">>),
                       !.MagnetUri = Str(<<"m","a","g","n","e","t",":","?","x","t","=","u","r","n",":","b","t","i","h",":","B","B","2","2","/","a","n","n","o","u","n","c","e">>)]
\* neither InfoHash nor MagnetUri
ResultNoIds == [BaseResult EXCEPT !.InfoHash = Undef]

\* as ResultBluRay but for 1500 MB
ResultLarge ==
    [ResultBluRay EXCEPT !.InfoHash = Str(<<"1","a","2","b">>), !.Size = Num(1572864000)]
\* as ResultBluRay but for 0 seeders
ResultUnseeded == [ResultBluRay EXCEPT !.InfoHash = Str(<<"5","e","e","d">>), !.Seeders = Num(0)]
\* a telesync
ResultTelesync ==
    [ResultBluRay EXCEPT !.InfoHash = Str(<<"7","e","1","e">>),
                         !.Title = Str(<<"T","h","e",".","M","a","t","r","i","x",".","1","9","9","9",".","1","0","8","0","p",".","H","D","T","S",".","x","2","6","4">>)]
\* another film
ResultInception ==
    [ResultBluRay EXCEPT !.InfoHash = Str(<<"d","0","d","0">>), !.Title = Str(TitleInception)]
\* as ResultBluRay but for the declared Language
ResultHindi == [ResultBluRay EXCEPT !.InfoHash = Str(<<"4","b","1","d">>), !.Language = Str(<<"h","i","n","d","i">>)]

\* results that fail one of the filters of the loop body each, and one that
\* passes them all
FilterPool ==
    {ResultBluRay, ResultDvd, ResultLarge, ResultUnseeded, ResultTelesync, ResultInception,
     ResultHindi}

\* results that differ in where their identifier stands
IdentifierPool == {ResultBluRay, ResultMagnet, ResultNoHash, ResultBothIds, ResultNoIds}

\* results that share an identifier, are rejected, or make the loop body throw
ResultPool == {ResultBluRay, ResultWebRip, ResultDvd, ResultNullTitle, ResultMagnet}

\* results with distinct identifiers whose sort keys differ at every level
SortPool ==
    {ResultBluRay, ResultAc3, ResultWebDl, ResultMagnet, ResultEnglish, ResultOld,
     ResultSeeded}

\* the sequences over pool of length at most len
RECURSIVE SeqsUpTo(_, _)
SeqsUpTo(pool, len) ==
    IF len = 0 THEN {<<>>}
    ELSE LET shorter == SeqsUpTo(pool, len - 1)
         IN shorter \cup {Append(sq, el) : sq \in shorter, el \in pool}

\* what jackettSearch returns: data.Results || [] (an array, or a value that is
\* truthy and not iterable when the response carries no array)
JackettOutcomes(pool) ==
    {[iterable |-> TRUE, items |-> sq] : sq \in SeqsUpTo(pool, MaxBatch)}
        \cup {[iterable |-> FALSE, items |-> <<>>]}

\* the requests of Stremio
ArgsPool ==
    {[type |-> "movie", id |-> ImdbMatrix],
     [type |-> "series", id |-> <<"t","t","0","1","3","3","0","9","3",":","2",":","5">>]}

\* what getOmdbMetadata / getTmdbMetadata resolve to: null or the metadata
NullMetadata == [title |-> Null, year |-> Null, type |-> "null"]

MatrixMetadata(type) == [title |-> Str(TitleMatrix), year |-> Num(1999), type |-> type]

\* what getOmdbMetadata and getTmdbMetadata resolve to for a request: OMDb knows
\* the movie or fails, TMDB is asked with the media type of the request
MetadataOutcomes(args) ==
    IF args.type = "movie"
    THEN {<<MatrixMetadata("movie"), NullMetadata>>, <<NullMetadata, NullMetadata>>}
    ELSE {<<NullMetadata, MatrixMetadata("series")>>}

DefaultVideoQualities == <<
    <<"r","e","m","u","x">>, <<"b","l","u","r","a","y">>, <<"b","d","r","i","p">>, <<"w","e","b","-","d","l">>, <<"w","e","b","r","i","p">>, <<"h","d","r","i","p">>, <<"h","d","t","v">>,
    <<"d","v","d","r","i","p">>, <<"x","2","6","5">>, <<"x","2","6","4">>, <<"h","e","v","c">>, <<"x","v","i","d">>, <<"a","v","1">>>>

DefaultAudioQualities == <<
    <<"t","r","u","e","h","d">>, <<"d","t","s","-","h","d">>, <<"a","t","m","o","s">>, <<"d","t","s">>, <<"e","a","c","3">>, <<"d","d","p">>, <<"a","c","3">>, <<"a","a","c">>, <<"m","p","3">>>>

\* the constants the server reads from the environment
ConfigPool ==
    {[MINIMUM_SEEDERS |-> 0, MIN_TORRENT_SIZE_MB |-> 10, MAX_TORRENT_SIZE_MB |-> 8048,
      PREFERRED_LANGUAGES |-> <<>>,
      PREFERRED_VIDEO_QUALITIES_CONFIG |-> DefaultVideoQualities,
      PREFERRED_AUDIO_QUALITIES_CONFIG |-> DefaultAudioQualities,
      MAX_STREAMS |-> MaxCap],
     [MINIMUM_SEEDERS |-> 1, MIN_TORRENT_SIZE_MB |-> 10, MAX_TORRENT_SIZE_MB |-> 1000,
      PREFERRED_LANGUAGES |-> <<<<"e","n","g","l","i","s","h">>>>,
      PREFERRED_VIDEO_QUALITIES_CONFIG |-> DefaultVideoQualities,
      PREFERRED_AUDIO_QUALITIES_CONFIG |-> DefaultAudioQualities,
      MAX_STREAMS |-> 1]}

\* what the fetch of TRACKERS_URL yields: a failure or the text of the list
TrackerFetchOutcomes ==
    {[ok |-> FALSE, text |-> <<>>],
     [ok |-> TRUE, text |-> (<<"#"," ","b","e","s","t">> \o <<"\n">>) \o (<<" ","u","d","p",":","/","/","t",".","c","o",":","8","0"," ">> \o <<"\n">>)]}


\* a variant of lines 82-98 without the check of line 82
ValidateWithoutTitle(metadata, season, episode, expected, torrent) ==
    IF metadata.type = "movie"
    THEN ~(/\ Truthy(expected.extractedYear)
           /\ Truthy(torrent.extractedYear)
           /\ expected.extractedYear # torrent.extractedYear)
    ELSE TRUE

\* lines 82-98, on the two standardized titles
ValidateStandardized(metadata, season, episode, expected, torrent) ==
    IF ~Includes(torrent.standardizedTitle, expected.standardizedTitle) THEN FALSE
    ELSE IF metadata.type = "movie"
    THEN ~(/\ Truthy(expected.extractedYear)
           /\ Truthy(torrent.extractedYear)
           /\ expected.extractedYear # torrent.extractedYear)
    ELSE IF metadata.type = "series"
    THEN ~(/\ Truthy(season)
           /\ Truthy(episode)
           /\ ~Includes(torrent.standardizedTitle,
                        (<<"s">> \o PadStart0(ToStr(season), 2))
                            \o (<<"e">> \o PadStart0(ToStr(episode), 2))))
    ELSE TRUE

validateTorrentTitle(metadata, season, episode, torrentTitle) ==
    IF ~Truthy(metadata.title) THEN FALSE
    ELSE ValidateStandardized(metadata, season, episode,
                              StandardizedTitle(metadata.title.s),
                              StandardizedTitle(torrentTitle))

PickDetails(found, cfg) ==
    [resolution |-> found.resolution,
     videoQuality |-> PickQuality(found.videoQualityMatches, cfg.PREFERRED_VIDEO_QUALITIES_CONFIG),
     audioQuality |-> PickQuality(found.audioQualityMatches, cfg.PREFERRED_AUDIO_QUALITIES_CONFIG),
     language |-> found.language]

parseTorrentDetails(torrentTitle, cfg) == PickDetails(TitleMatchesOf(torrentTitle), cfg)

getResolutionRank(resolution) ==
    CASE resolution = Str(<<"2","1","6","0","p">>) -> 4
      [] resolution = Str(<<"1","0","8","0","p">>) -> 3
      [] resolution = Str(<<"7","2","0","p">>) -> 2
      [] resolution \in {Str(<<"5","7","6","p">>), Str(<<"4","8","0","p">>)} -> 1
      [] OTHER -> 0

RankOfIndex(index, preferred) == IF index # 0 THEN Len(preferred) - (index - 1) ELSE 0

QualityRank(quality, preferred) ==
    IF ~Truthy(quality) THEN 0
    ELSE RankOfIndex(IF quality.t = "str" THEN ArrIndexOf(preferred, quality.s) ELSE 0,
                     preferred)

getVideoQualityRank(quality, cfg) == QualityRank(quality, cfg.PREFERRED_VIDEO_QUALITIES_CONFIG)

getAudioQualityRank(quality, cfg) == QualityRank(quality, cfg.PREFERRED_AUDIO_QUALITIES_CONFIG)

(***************************************************************************)
(* Dates, URI encoding and the magnet expression.                          *)
(***************************************************************************)
DaysFromCivil(y, m, d) ==
    LET yy == IF m <= 2 THEN y - 1 ELSE y
        era == yy \div 400
        yoe == yy - era * 400
        mp == (m + 9) % 12
        doy == (153 * mp + 2) \div 5 + d - 1
        doe == yoe * 365 + yoe \div 4 - yoe \div 100 + doy
    IN era * 146097 + doe - 719468

DaysInMonth(y, m) ==
    IF m = 2 THEN (IF y % 4 = 0 /\ (y % 100 # 0 \/ y % 400 = 0) THEN 29 ELSE 28)
    ELSE IF m \in {4, 6, 9, 11} THEN 30 ELSE 31

\* new Date(v).getTime() for a string v, in whole seconds since the epoch:
\* a number for YYYY-MM-DDTHH:MM:SSZ, NaN for a string that is no date
IsoDatePat == <<"\\d","\\d","\\d","\\d","-","\\d","\\d","-","\\d","\\d","T","\\d","\\d",":","\\d","\\d",":","\\d","\\d","Z">>

EpochSeconds(y, m, d, hh, mi, ss) ==
    IF m \in 1..12 /\ d \in 1..DaysInMonth(y, m) /\ hh < 24 /\ mi < 60 /\ ss < 60
    THEN Num(DaysFromCivil(y, m, d) * 86400 + hh * 3600 + mi * 60 + ss)
    ELSE NaN

getTime(v) ==
    IF v.t # "str" \/ Len(v.s) # Len(IsoDatePat) \/ ~PatMatchAt(v.s, 1, IsoDatePat) THEN NaN
    ELSE EpochSeconds(ParseDigits(SubSeq(v.s, 1, 4)), ParseDigits(SubSeq(v.s, 6, 7)),
                      ParseDigits(SubSeq(v.s, 9, 10)), ParseDigits(SubSeq(v.s, 12, 13)),
                      ParseDigits(SubSeq(v.s, 15, 16)), ParseDigits(SubSeq(v.s, 18, 19)))

isNaN(v) == v.t = "nan"

\* encodeURIComponent over the characters of the tracker URLs
PercentCodes == <<
    <<":", <<"%","3","A">>>>, <<"/", <<"%","2","F">>>>, <<"?", <<"%","3","F">>>>, <<"&", <<"%","2","6">>>>,
    <<"=", <<"%","3","D">>>>, <<" ", <<"%","2","0">>>>, <<"%", <<"%","2","5">>>>, <<"#", <<"%","2","3">>>>,
    <<"+", <<"%","2","B">>>>, <<",", <<"%","2","C">>>>, <<"@", <<"%","4","0">>>>>>

EncodeChar(c, hits) == IF hits = {} THEN <<c>> ELSE PercentCodes[Min(hits)][2]

RECURSIVE encodeURIComponent(_)
encodeURIComponent(u) ==
    IF u = <<>> THEN <<>>
    ELSE EncodeChar(u[1], {k \in 1..Len(PercentCodes) : PercentCodes[k][1] = u[1]})
             \o encodeURIComponent(Tail(u))

\* parts.join(sep)
RECURSIVE Join(_, _)
Join(parts, sep) ==
    IF Len(parts) = 0 THEN <<>>
    ELSE IF Len(parts) = 1 THEN parts[1]
    ELSE (parts[1] \o sep) \o Join(Tail(parts), sep)

\* the capture ([^&/]+) that starts at from
CaptureFrom(uri, from, stops) ==
    Str(SubSeq(uri, from, IF stops = {} THEN Len(uri) ELSE Min(stops) - 1))

CaptureAfter(uri, starts) ==
    IF starts = {} THEN Undef
    ELSE CaptureFrom(uri, Min(starts) + 5,
                     {q \in (Min(starts) + 5)..Len(uri) : uri[q] \in {"&", "/"}})

\* uri.match(/btih:([^&/]+)/)?.[1]
MagnetHash(uri) ==
    CaptureAfter(uri, {p \in 1..Len(uri) :
                          /\ PatMatchAt(uri, p, <<"b","t","i","h",":">>)
                          /\ p + 5 <= Len(uri)
                          /\ uri[p + 5] \notin {"&", "/"}})

(***************************************************************************)
(* torrentProcessorWorker.js: the message handler.                         *)
(***************************************************************************)
NoStream == [originalResult |-> BaseResult, magnetLink |-> <<>>, infoHash |-> <<>>,
             parsedDetails |-> [resolution |-> Null, videoQuality |-> Null,
                                audioQuality |-> Null, language |-> Null],
             resolutionRank |-> 0, videoQualityRank |-> 0, audioQualityRank |-> 0,
             hasPreferredLanguage |-> JsFalse, effectivePublishedDate |-> Null]

\* a variant of the size filter that lets every size pass
AnySize(currentSize, cfg) == FALSE

\* torrentSizeMB < MIN_TORRENT_SIZE_MB || torrentSizeMB > MAX_TORRENT_SIZE_MB
SizeOutOfRange(currentSize, cfg) ==
    \/ currentSize \div 1048576 < cfg.MIN_TORRENT_SIZE_MB
    \/ currentSize \div 1048576 > cfg.MAX_TORRENT_SIZE_MB
    \/ (currentSize \div 1048576 = cfg.MAX_TORRENT_SIZE_MB /\ currentSize % 1048576 > 0)

\* a variant of the flag that is true for every known language
LanguageKnown(language, cfg) == IF Truthy(language) THEN JsTrue ELSE JsFalse

\* PREFERRED_LANGUAGES.length > 0 && language && PREFERRED_LANGUAGES.includes(language)
hasPreferredLanguage(language, cfg) ==
    IF Len(cfg.PREFERRED_LANGUAGES) = 0 THEN JsFalse
    ELSE IF ~Truthy(language) THEN language
    ELSE IF language.t = "str" /\ ArrIncludes(cfg.PREFERRED_LANGUAGES, language.s)
         THEN JsTrue ELSE JsFalse

magnetLink(infoHash, trackers) ==
    (<<"m","a","g","n","e","t",":","?","x","t","=","u","r","n",":","b","t","i","h",":">> \o infoHash) \o (<<"&">> \o
        Join([k \in 1..Len(trackers) |-> <<"t","r","=">> \o encodeURIComponent(trackers[k])], <<"&">>))

\* how the try block of one result ends without a push
Thrown == [kind |-> "throw", stream |-> NoStream]

Skipped == [kind |-> "continue", stream |-> NoStream]

\* a variant of line 260 that prefers the magnet URI
MagnetFirst(hashField, magnetField) ==
    JsOr(IF magnetField.t = "str" THEN MagnetHash(magnetField.s) ELSE Null, hashField)

\* line 260: InfoHash, else the capture of the magnet URI
RawInfoHash(hashField, magnetField) ==
    JsOr(hashField, IF magnetField.t = "str" THEN MagnetHash(magnetField.s) ELSE Null)

\* a variant of line 262 that keeps the identifier's case
KeepCase(rawHash) == rawHash

\* the lower-cased identifier of line 262
NormalizeInfoHash(rawHash) == toLowerCase(rawHash)

\* a variant of lines 270-297 that prefers the values parsed from the title
TitleFirstDetails(result, fromTitle) ==
    [resolution |-> JsOr(fromTitle.resolution, simpleGet(result, "Resolution", Null)),
     videoQuality |-> JsOr(fromTitle.videoQuality, simpleGet(result, "Quality", Null)),
     audioQuality |-> JsOr(fromTitle.audioQuality, simpleGet(result, "AudioChannels", Null)),
     language |-> JsOr(fromTitle.language, simpleGet(result, "Language", Null))]

\* lines 270-297: the declared fields, each falling back to the title
ConsolidatedDetails(result, fromTitle) ==
    [resolution |-> JsOr(simpleGet(result, "Resolution", Null), fromTitle.resolution),
     videoQuality |-> JsOr(simpleGet(result, "Quality", Null), fromTitle.videoQuality),
     audioQuality |-> JsOr(simpleGet(result, "AudioChannels", Null), fromTitle.audioQuality),
     language |-> JsOr(simpleGet(result, "Language", Null), fromTitle.language)]

\* lines 325-329: an unparsable PublishedDate becomes null
EffectivePublishedDate(apiDate) ==
    IF Truthy(apiDate) /\ isNaN(getTime(apiDate)) THEN Null ELSE apiDate

\* lines 300-345: the filters on the consolidated details, then the push
TryDetails(result, msg, infoHash, details) ==
    IF getResolutionRank(details.resolution) < getResolutionRank(Str(<<"7","2","0","p">>)) THEN Skipped
    ELSE IF simpleGet(result, "Seeders", Num(0)).n < msg.config.MINIMUM_SEEDERS THEN Skipped
    ELSE IF SizeOutOfRange(simpleGet(result, "Size", Num(0)).n, msg.config) THEN Skipped
    ELSE IF /\ Len(msg.config.PREFERRED_LANGUAGES) > 0
            /\ \/ ~Truthy(details.language)
               \/ details.language.t # "str"
               \/ ~ArrIncludes(msg.config.PREFERRED_LANGUAGES, details.language.s)
         THEN Skipped
    ELSE [kind |-> "push",
          stream |-> [originalResult |-> result,
                      magnetLink |-> magnetLink(infoHash, msg.publicTrackers),
                      infoHash |-> infoHash,
                      parsedDetails |-> details,
                      resolutionRank |-> getResolutionRank(details.resolution),
                      videoQualityRank |-> getVideoQualityRank(details.videoQuality, msg.config),
                      audioQualityRank |-> getAudioQualityRank(details.audioQuality, msg.config),
                      hasPreferredLanguage |-> hasPreferredLanguage(details.language, msg.config),
                      effectivePublishedDate |->
                          EffectivePublishedDate(simpleGet(result, "PublishedDate", Null))]]

\* lines 264-276: deduplication, title validation, title parsing
TryIdentified(result, msg, processedInfoHashes, title, infoHash) ==
    IF infoHash \in processedInfoHashes THEN Skipped
    ELSE IF ~validateTorrentTitle(msg.metadata, msg.season, msg.episode, title) THEN Skipped
    ELSE TryDetails(result, msg, infoHash,
                    ConsolidatedDetails(result, parseTorrentDetails(title, msg.config)))

\* lines 261-262: no identifier skips, an identifier that is no string throws
TryHash(result, msg, processedInfoHashes, title, rawHash) ==
    IF ~Truthy(rawHash) THEN Skipped
    ELSE IF rawHash.t # "str" THEN Thrown
    ELSE TryIdentified(result, msg, processedInfoHashes, title, NormalizeInfoHash(rawHash.s))

\* lines 250-258: a Title that is no string throws; TS and telecine are skipped
TryTitle(result, msg, processedInfoHashes, title, hashField, magnetField) ==
    IF title.t # "str" THEN Thrown
    ELSE IF LET lowerTitle == toLowerCase(title.s)
            IN Includes(lowerTitle, <<"t","s">>) \/ Includes(lowerTitle, <<"t","e","l","e","c","i","n","e">>)
         THEN Skipped
    ELSE IF ~Truthy(hashField) /\ (~Truthy(magnetField) \/ magnetField.t # "str") THEN Skipped
    ELSE TryHash(result, msg, processedInfoHashes, title.s,
                 RawInfoHash(hashField, magnetField))

\* the body of the try block for one result: it throws, continues or pushes
TryResult(result, msg, processedInfoHashes) ==
    TryTitle(result, msg, processedInfoHashes,
             simpleGet(result, "Title", Str(<<>>)),
             simpleGet(result, "InfoHash", Null),
             simpleGet(result, "MagnetUri", Null))

\* a variant of line 333 that forgets the identifier
ForgetInfoHash(processedInfoHashes, infoHash) == processedInfoHashes

\* processedInfoHashes.add(infoHash)
AddInfoHash(processedInfoHashes, infoHash) == processedInfoHashes \cup {infoHash}

\* a variant of the per-result catch that lets the error leave the loop
Rethrow(loop) == [loop EXCEPT !.failed = TRUE]

\* the catch of the per-result try block: the error is logged, the loop goes on
InnerCatch(loop) == loop

\* the loop state after the try block of one result has ended as out
AfterResult(loop, out) ==
    CASE out.kind = "push" ->
             [loop EXCEPT !.processedInfoHashes = AddInfoHash(@, out.stream.infoHash),
                          !.processedStreams = Append(@, out.stream)]
      [] out.kind = "throw" -> InnerCatch(loop)
      [] OTHER -> loop

\* for (const result of resultsToProcess) { try { ... } catch (innerErr) { ... } }
RECURSIVE RunLoop(_, _, _)
RunLoop(results, msg, loop) ==
    IF results = <<>> \/ loop.failed THEN loop
    ELSE RunLoop(Tail(results), msg,
                 AfterResult(loop, TryResult(Head(results), msg, loop.processedInfoHashes)))

NotIterableError == <<"r","e","s","u","l","t","s","T","o","P","r","o","c","e","s","s"," ","i","s"," ","n","o","t"," ","i","t","e","r","a","b","l","e">>

\* line 355, or line 360 when an error left the loop
LoopReply(loop) ==
    IF loop.failed
    THEN [isArray |-> FALSE, items |-> <<>>, error |-> Str(<<"i","n","n","e","r","E","r","r">>)]
    ELSE [isArray |-> TRUE, items |-> loop.processedStreams, error |-> Undef]

\* parentPort.on('message'): the one message the handler posts back
OnMessage(msg) ==
    IF ~msg.jackettResults.iterable
    THEN [isArray |-> FALSE, items |-> <<>>, error |-> Str(NotIterableError)]
    ELSE LoopReply(RunLoop(msg.jackettResults.items, msg,
                           [processedStreams |-> <<>>, processedInfoHashes |-> {},
                            failed |-> FALSE]))

(***************************************************************************)
(* server.js: sort, cap and format.                                        *)
(***************************************************************************)
\* effectivePublishedDate ? new Date(effectivePublishedDate).getTime() : 0
DateKey(stream) ==
    IF Truthy(stream.effectivePublishedDate) THEN getTime(stream.effectivePublishedDate).n ELSE 0

\* a variant of the comparator that looks at the seed counts only
CompareSeeders(a, b) == b.originalResult.Seeders.n - a.originalResult.Seeders.n

\* a variant of the comparator with the resolution key ascending
CompareResolutionAscending(a, b) ==
    IF b.originalResult.Seeders # a.originalResult.Seeders
    THEN b.originalResult.Seeders.n - a.originalResult.Seeders.n
    ELSE IF DateKey(b) # DateKey(a) THEN DateKey(b) - DateKey(a)
    ELSE IF a.resolutionRank # b.resolutionRank THEN a.resolutionRank - b.resolutionRank
    ELSE IF a.videoQualityRank # b.videoQualityRank THEN b.videoQualityRank - a.videoQualityRank
    ELSE IF a.audioQualityRank # b.audioQualityRank THEN b.audioQualityRank - a.audioQualityRank
    ELSE 0

\* the comparator of candidatesForFinalSort.sort: negative when a goes first
Compare(a, b) ==
    IF b.originalResult.Seeders # a.originalResult.Seeders
    THEN b.originalResult.Seeders.n - a.originalResult.Seeders.n
    ELSE IF DateKey(b) # DateKey(a) THEN DateKey(b) - DateKey(a)
    ELSE IF Truthy(a.hasPreferredLanguage) /\ ~Truthy(b.hasPreferredLanguage) THEN -1
    ELSE IF ~Truthy(a.hasPreferredLanguage) /\ Truthy(b.hasPreferredLanguage) THEN 1
    ELSE IF a.resolutionRank # b.resolutionRank THEN b.resolutionRank - a.resolutionRank
    ELSE IF a.videoQualityRank # b.videoQualityRank THEN b.videoQualityRank - a.videoQualityRank
    ELSE IF a.audioQualityRank # b.audioQualityRank THEN b.audioQualityRank - a.audioQualityRank
    ELSE 0

InsertAt(sorted, el, at) ==
    (SubSeq(sorted, 1, at - 1) \o <<el>>) \o SubSeq(sorted, at, Len(sorted))

\* Array.prototype.sort is stable: el goes behind everything it does not precede
InsertSorted(sorted, el) ==
    InsertAt(sorted, el,
             Min({k \in 1..Len(sorted) : Compare(el, sorted[k]) < 0} \cup {Len(sorted) + 1}))

RECURSIVE Sort(_)
Sort(list) ==
    IF list = <<>> THEN <<>>
    ELSE InsertSorted(Sort(SubSeq(list, 1, Len(list) - 1)), list[Len(list)])

\* (size / (1024 * 1024)).toFixed(2)
FixedDigits(whole, cents) ==
    IF cents = 100 THEN NumToString(whole + 1) \o <<".","0","0">>
    ELSE (NumToString(whole) \o <<".">>) \o PadStart0(NumToString(cents), 2)

SizeToFixed2(size) ==
    FixedDigits(size \div 1048576, ((size % 1048576) * 100 + 524288) \div 1048576)

Capitalize(w) == IF w = <<>> THEN w ELSE <<ToUpperChar(w[1])>> \o Tail(w)

\* one entry of stremioStreams (lines 2827-2848)
FormatStream(stream, trackers) ==
    LET result == stream.originalResult
        det == stream.parsedDetails
        titleParts ==
            <<ToStr(result.Title)>>
            \o (IF Truthy(det.resolution) THEN <<toUpperCase(det.resolution.s)>> ELSE <<>>)
            \o (IF Truthy(det.videoQuality) THEN <<toUpperCase(det.videoQuality.s)>> ELSE <<>>)
            \o (IF Truthy(det.audioQuality) THEN <<toUpperCase(det.audioQuality.s)>> ELSE <<>>)
            \o (IF Truthy(det.language) THEN <<Capitalize(det.language.s)>> ELSE <<>>)
            \o <<<<"S",":">> \o ToStr(result.Seeders), <<"L",":">> \o ToStr(result.Peers),
                 (<<"S","i","z","e",":">> \o SizeToFixed2(result.Size.n)) \o <<"M","B">>>>
    IN [name |-> <<"J","a","c","k","e","t","t"," ","|"," ">> \o ToStr(result.Tracker),
        title |-> Join(titleParts, <<" ","|"," ">>),
        infoHash |-> stream.infoHash,
        sources |-> [k \in 1..Len(trackers) |-> <<"t","r","a","c","k","e","r",":">> \o trackers[k]]
                        \o <<<<"d","h","t",":">> \o stream.infoHash>>]

\* a variant of the Stage 4 loop bound without the cap
NoLimit(candidates, maxStreams) == Len(candidates)

\* Math.min(candidatesForFinalSort.length, MAX_STREAMS)
StreamLimit(candidates, maxStreams) ==
    IF Len(candidates) < maxStreams THEN Len(candidates) ELSE maxStreams

\* a parsed detail that is truthy and no string makes toUpperCase throw
Stage4Throws(candidates, maxStreams) ==
    \E k \in 1..StreamLimit(candidates, maxStreams) :
        \E f \in {"resolution", "videoQuality", "audioQuality", "language"} :
            Truthy(candidates[k].parsedDetails[f]) /\ candidates[k].parsedDetails[f].t # "str"

Stage4(candidates, maxStreams, trackers) ==
    [k \in 1..StreamLimit(candidates, maxStreams) |-> FormatStream(candidates[k], trackers)]

(***************************************************************************)
(* server.js: request parsing and metadata.                                *)
(***************************************************************************)
\* str.split(sep) for a one-character separator
RECURSIVE Split(_, _)
RECURSIVE SplitAt(_, _, _)
Split(str, sep) == SplitAt(str, sep, {p \in 1..Len(str) : str[p] = sep})

SplitAt(str, sep, cuts) ==
    IF cuts = {} THEN <<str>>
    ELSE <<SubSeq(str, 1, Min(cuts) - 1)>> \o Split(SubSeq(str, Min(cuts) + 1, Len(str)), sep)

\* parseInt(str, 10) of a string without sign: its leading digits, or NaN
LeadingDigits(trimmed, stops) ==
    IF stops = {} THEN trimmed ELSE SubSeq(trimmed, 1, Min(stops) - 1)

DigitsToNumber(digits) == IF digits = <<>> THEN NaN ELSE Num(ParseDigits(digits))

DigitPrefix(trimmed) ==
    LeadingDigits(trimmed, {p \in 1..Len(trimmed) : ~IsDigit(trimmed[p])})

parseInt(str) == DigitsToNumber(DigitPrefix(Trim(str)))

\* lines 2698-2708: season and episode of the request
SeasonPart(args, parts, at) ==
    IF args.type = "series" /\ Len(parts) = 3
    THEN parseInt(SubSeq(parts[at], 2, Len(parts[at])))
    ELSE Undef

ParseSeason(args, at) == SeasonPart(args, Split(args.id, ":"), at)

\* lines 2724-2741: OMDb first, TMDB second, the IMDb id as the fallback
SelectMetadata(omdbResult, tmdbResult, imdbId, itemType) ==
    IF omdbResult # NullMetadata THEN omdbResult
    ELSE IF tmdbResult # NullMetadata THEN tmdbResult
    ELSE [title |-> Str(imdbId), year |-> Null, type |-> itemType]

\* lines 2743-2748
JackettQuery(metadata, season, episode) ==
    IF metadata.type = "movie" /\ Truthy(metadata.year)
    THEN (ToStr(metadata.title) \o <<" ">>) \o ToStr(metadata.year)
    ELSE IF metadata.type = "series" /\ Truthy(season) /\ Truthy(episode)
    THEN (ToStr(metadata.title) \o <<" ","S">>) \o (PadStart0(ToStr(season), 2)
             \o (<<"E">> \o PadStart0(ToStr(episode), 2)))
    ELSE ToStr(metadata.title)

\* line 2551: the lines of the text, trimmed, without empty lines and comments
TrackerLines(text) ==
    SelectSeq([k \in 1..Len(Split(text, "\n")) |-> Trim(Split(text, "\n")[k])],
              LAMBDA line : Len(line) > 0 /\ line[1] # "#")

(***************************************************************************)
(* server.js, the Express version (1.0.3): the relevance check.            *)
(***************************************************************************)
AlphaNumericChars == SeqRange(LowerChars) \cup SeqRange(DigitChars)

\* normalizeString(str, aggressive)
normalizeString(str, aggressive) ==
    IF ~Truthy(str) THEN <<>>
    ELSE IF aggressive
         THEN SelectSeq(toLowerCase(str.s), LAMBDA c : c \in AlphaNumericChars)
    ELSE Trim(CollapseRuns(SelectSeq(toLowerCase(str.s),
                                     LAMBDA c : c \in AlphaNumericChars \cup {" "}),
                           {" "}))

\* the capture of the leftmost match of /\b(\d{4})\b/, or null
YearCapture(title, hits) ==
    IF hits = {} THEN Null ELSE Str(SubSeq(title, Min(hits), Min(hits) + 3))

\* item.Title ? (item.Title.match(/\b(\d{4})\b/) ? ...[1] : null) : null
itemYearMatch(title) ==
    IF ~Truthy(title) THEN Null
    ELSE YearCapture(title.s, {p \in 1..(Len(title.s) - 3) :
                                  /\ PatMatchAt(title.s, p, <<"\\d","\\d","\\d","\\d">>)
                                  /\ WordBoundaryAt(title.s, p)
                                  /\ WordBoundaryAt(title.s, p + 4)})

\* RESOLUTION_PATTERNS, in the order of its keys; the patterns ignore case
RESOLUTION_PATTERNS == <<
    [res |-> <<"2","1","6","0","p">>, alts |-> <<<<"2","1","6","0","p">>, <<"4","k">>, <<"u","h","d">>>>],
    [res |-> <<"1","0","8","0","p">>, alts |-> <<<<"1","0","8","0","p">>, <<"f","h","d">>>>],
    [res |-> <<"7","2","0","p">>, alts |-> <<<<"7","2","0","p">>, <<"h","d">>>>],
    [res |-> <<"4","8","0","p">>, alts |-> <<<<"4","8","0","p">>, <<"s","d">>>>]>>

\* LANGUAGE_PATTERNS, in the order of its keys: the alternatives in Latin
\* letters, each followed by \b; h.indi is tested apart
LANGUAGE_PATTERNS == <<
    [lang |-> <<"E","n","g","l","i","s","h">>, alts |-> <<<<"e","n","g">>, <<"e","n","g","l","i","s","h">>, <<"e","n">>>>],
    [lang |-> <<"H","i","n","d","i">>, alts |-> <<<<"h","i","n">>, <<"h","i","n","d","i">>>>],
    [lang |-> <<"T","a","m","i","l">>, alts |-> <<<<"t","a","m">>, <<"t","a","m","i","l">>>>],
    [lang |-> <<"M","a","l","a","y","a","l","a","m">>, alts |-> <<<<"m","a","l">>, <<"m","a","l","a","y","a","l","a","m">>>>],
    [lang |-> <<"T","e","l","u","g","u">>, alts |-> <<<<"t","e","l">>, <<"t","e","l","u","g","u">>>>],
    [lang |-> <<"J","a","p","a","n","e","s","e">>, alts |-> <<<<"j","p","n">>, <<"j","a","p","a","n","e","s","e">>, <<"j","a">>>>],
    [lang |-> <<"K","o","r","e","a","n">>, alts |-> <<<<"k","o","r">>, <<"k","o","r","e","a","n">>, <<"k","o">>>>],
    [lang |-> <<"C","h","i","n","e","s","e">>, alts |-> <<<<"c","h","i">>, <<"c","h","i","n","e","s","e">>, <<"z","h">>>>]>>

\* the first key of the table whose pattern the text matches, or null
FirstKey(keys, hits) == IF hits = {} THEN Null ELSE Str(keys[Min(hits)])

\* extractResolution(title): test() reads the title as a string
extractResolution(title) ==
    FirstKey([k \in 1..Len(RESOLUTION_PATTERNS) |-> RESOLUTION_PATTERNS[k].res],
             {k \in 1..Len(RESOLUTION_PATTERNS) :
                 FirstMatchPos(toLowerCase(ToStr(title)), RESOLUTION_PATTERNS[k].alts,
                               FALSE) # 0})

\* /h.indi\b/i
MatchesHDotIndi(text) ==
    \E p \in 1..Len(text) :
        /\ text[p] = "h"
        /\ PatMatchAt(text, p + 2, <<"i","n","d","i">>)
        /\ WordBoundaryAt(text, p + 6)

\* extractLanguage(title)
extractLanguage(title) ==
    FirstKey([k \in 1..Len(LANGUAGE_PATTERNS) |-> LANGUAGE_PATTERNS[k].lang],
             {k \in 1..Len(LANGUAGE_PATTERNS) :
                 \/ FirstMatchPos(toLowerCase(ToStr(title)), LANGUAGE_PATTERNS[k].alts,
                                  TRUE) # 0
                 \/ (k = 2 /\ MatchesHDotIndi(toLowerCase(ToStr(title))))})

\* [normalizedPrimaryTitle, ...normalizedAkaTitles]
NormalizedTitles(metadata) ==
    <<normalizeString(metadata.title, TRUE)>>
    \o [k \in 1..Len(metadata.akaTitles) |->
           normalizeString(Str(metadata.akaTitles[k]), TRUE)]

\* lines 526-532: some known title, not empty, is part of the item's title
hasStrongTitleOverlap(normalizedItemTitle, titles) ==
    \E k \in 1..Len(titles) :
        titles[k] # <<>> /\ Includes(normalizedItemTitle, titles[k])

\* line 535
containsImdbId(normalizedItemTitle, metadata) ==
    /\ Truthy(metadata.imdbId)
    /\ Includes(normalizedItemTitle, normalizeString(metadata.imdbId, TRUE))

\* line 536
containsTmdbId(normalizedItemTitle, metadata) ==
    /\ Truthy(metadata.tmdbId)
    /\ Includes(normalizedItemTitle, normalizeString(Str(ToStr(metadata.tmdbId)), TRUE))

\* line 538
yearMatches(metadata, yearOfItem) ==
    IF Truthy(metadata.year) /\ Truthy(yearOfItem)
    THEN /\ ~isNaN(parseInt(ToStr(metadata.year)))
         /\ parseInt(yearOfItem.s) = parseInt(ToStr(metadata.year))
    ELSE TRUE

\* lines 543-572: the query was made with an identifier
PassesIdQuery(normalizedItemTitle, metadata, yearOfItem) ==
    IF \/ containsImdbId(normalizedItemTitle, metadata)
       \/ containsTmdbId(normalizedItemTitle, metadata)
    THEN \/ hasStrongTitleOverlap(normalizedItemTitle, NormalizedTitles(metadata))
         \/ (~Truthy(metadata.title) /\ Len(metadata.akaTitles) = 0)
    ELSE /\ hasStrongTitleOverlap(normalizedItemTitle, NormalizedTitles(metadata))
         /\ yearMatches(metadata, yearOfItem)

\* lines 575-604: the query was made with a title
PassesTitleQuery(normalizedItemTitle, metadata, yearOfItem, titles) ==
    \/ /\ titles[1] # <<>>
       /\ Truthy(metadata.year)
       /\ Includes(normalizedItemTitle, titles[1])
       /\ yearMatches(metadata, yearOfItem)
    \/ \E k \in 2..Len(titles) :
          /\ titles[k] # <<>>
          /\ Includes(normalizedItemTitle, titles[k])
          /\ \/ Truthy(metadata.year) /\ yearMatches(metadata, yearOfItem)
             \/ ~Truthy(metadata.year)
    \/ /\ titles[1] # <<>>
       /\ Includes(normalizedItemTitle, titles[1])

UnknownValue == Str(<<"U","n","k","n","o","w","n">>)

\* an empty allow-list, a listed value and 'Unknown' pass
PassesAllowList(allowed, value) ==
    \/ Len(allowed) = 0
    \/ ArrIncludes(allowed, value.s)
    \/ value = UnknownValue

\* lines 610-626: size, resolution and language against the configuration
PassesPreferences(item, config) ==
    /\ \/ config.maxSize = 0
       \/ JsOr(item.Size, Num(0)).n <= config.maxSize
    /\ PassesAllowList(config.preferredResolutions,
                       JsOr(extractResolution(item.Title), UnknownValue))
    /\ PassesAllowList(config.preferredLanguages,
                       JsOr(extractLanguage(item.Title), UnknownValue))

\* validateJackettResult(item, metadata, wasIdQuery, config)
validateJackettResult(item, metadata, wasIdQuery, config) ==
    /\ Truthy(item.MagnetUri)
    /\ IF wasIdQuery
       THEN PassesIdQuery(normalizeString(item.Title, TRUE), metadata,
                          itemYearMatch(item.Title))
       ELSE PassesTitleQuery(normalizeString(item.Title, TRUE), metadata,
                             itemYearMatch(item.Title), NormalizedTitles(metadata))
    /\ PassesPreferences(item, config)

\* titles of the items Jackett returns to the Express version
ItemMatrix == <<"T","h","e"," ","M","a","t","r","i","x"," ","1","9","9","9"," ","1","0","8","0","p"," ","E","n","g","l","i","s","h">>
ItemIdOnly == <<"t","t","0","1","3","3","0","9","3"," ","1","0","8","0","p"," ","x","2","6","4">>
ItemIdAndTitle == <<"t","t","0","1","3","3","0","9","3"," ","T","h","e",".","M","a","t","r","i","x",".","1","9","9","9",".","7","2","0","p">>
ItemAka == <<"D","i","e"," ","M","a","t","r","i","x"," ","1","9","9","9"," ","2","1","6","0","p">>
ItemWrongYear == <<"T","h","e"," ","M","a","t","r","i","x"," ","2","0","0","3"," ","S","D">>
ItemOther == <<"I","n","c","e","p","t","i","o","n"," ","2","0","1","0"," ","U","H","D"," ","H","i","n","d","i">>
ItemTmdb == <<"6","0","3"," ","r","e","m","u","x">>

\* an item of jackettResponse.Results as fetchJackettResults maps it
BaseItem ==
    [Title |-> Str(ItemMatrix), MagnetUri |-> Str(<<"m","a","g","n","e","t",":","?","x","t","=","u","r","n",":","b","t","i","h",":","A","A","1","1","A","A","1","1","A","A","1","1","A","A","1","1","A","A","1","1","A","A","1","1","A","A","1","1","A","A","1","1","A","A","1","1","A","A","1","1">>),
     Seeders |-> Num(20), Leechers |-> Num(1), Size |-> Num(700),
     PublishDate |-> Str(<<"2","0","2","4","-","0","1","-","0","2","T","0","0",":","0","0",":","0","0","Z">>), Tracker |-> Str(<<"i","d","x">>)]

ItemWithId ==
    [BaseItem EXCEPT !.Title = Str(ItemIdOnly), !.Seeders = Num(70),
                     !.MagnetUri = Str(<<"m","a","g","n","e","t",":","?","x","t","=","u","r","n",":","b","t","i","h",":","B","B","2","2","B","B","2","2","B","B","2","2","B","B","2","2","B","B","2","2","B","B","2","2","B","B","2","2","B","B","2","2","B","B","2","2","B","B","2","2">>)]
ItemWithBoth ==
    [BaseItem EXCEPT !.Title = Str(ItemIdAndTitle), !.Size = Num(2000),
                     !.MagnetUri = Str(<<"m","a","g","n","e","t",":","?","x","t","=","u","r","n",":","b","t","i","h",":","C","C","3","3","C","C","3","3","C","C","3","3","C","C","3","3","C","C","3","3","C","C","3","3","C","C","3","3","C","C","3","3","C","C","3","3","C","C","3","3">>),
                     !.PublishDate = Str(<<"2","0","2","4","-","0","1","-","0","3","T","0","0",":","0","0",":","0","0","Z">>)]
ItemWithAka ==
    [BaseItem EXCEPT !.Title = Str(ItemAka), !.Seeders = Num(3),
                     !.MagnetUri = Str(<<"m","a","g","n","e","t",":","?","x","t","=","u","r","n",":","b","t","i","h",":","D","D","4","4","D","D","4","4","D","D","4","4","D","D","4","4","D","D","4","4","D","D","4","4","D","D","4","4","D","D","4","4","D","D","4","4","D","D","4","4">>)]
ItemOfOtherYear ==
    [BaseItem EXCEPT !.Title = Str(ItemWrongYear), !.Size = Num(0),
                     !.MagnetUri = Str(<<"m","a","g","n","e","t",":","?","x","t","=","u","r","n",":","b","t","i","h",":","E","E","5","5","E","E","5","5","E","E","5","5","E","E","5","5","E","E","5","5","E","E","5","5","E","E","5","5","E","E","5","5","E","E","5","5","E","E","5","5">>)]
ItemOfOtherFilm ==
    [BaseItem EXCEPT !.Title = Str(ItemOther),
                     !.MagnetUri = Str(<<"m","a","g","n","e","t",":","?","x","t","=","u","r","n",":","b","t","i","h",":","F","F","6","6","F","F","6","6","F","F","6","6","F","F","6","6","F","F","6","6","F","F","6","6","F","F","6","6","F","F","6","6","F","F","6","6","F","F","6","6">>)]
ItemWithTmdb ==
    [BaseItem EXCEPT !.Title = Str(ItemTmdb),
                     !.MagnetUri = Str(<<"m","a","g","n","e","t",":","?","x","t","=","u","r","n",":","b","t","i","h",":","A","B","7","7">>)]
\* the torrent of BaseItem as another indexer lists it: the same info-hash in
\* lower case
ItemOfSameTorrent ==
    [BaseItem EXCEPT !.MagnetUri = Str(<<"m","a","g","n","e","t",":","?","x","t","=","u","r","n",":","b","t","i","h",":","a","a","1","1","a","a","1","1","a","a","1","1","a","a","1","1","a","a","1","1","a","a","1","1","a","a","1","1","a","a","1","1","a","a","1","1","a","a","1","1">>),
                     !.Seeders = Num(8), !.Tracker = Str(<<"o","t","h","e","r">>)]

\* the items of the Jackett responses
ItemPool ==
    {BaseItem, ItemWithId, ItemWithBoth, ItemWithAka, ItemOfOtherYear, ItemOfOtherFilm,
     ItemWithTmdb, ItemOfSameTorrent}

\* items handed to validateJackettResult on its own: also one without title
\* and one without magnet URI
CallItems ==
    ItemPool \cup {[BaseItem EXCEPT !.Title = Null], [BaseItem EXCEPT !.MagnetUri = Undef]}

\* line 229: the metadata object before any lookup succeeds
EmptyMetadata(imdbId) ==
    [title |-> Null, year |-> Null, akaTitles |-> <<>>, tmdbId |-> Null, imdbId |-> imdbId]

\* what fetchMetadataFromOmdbTmdb returns for tt0133093, by what OMDB and TMDB answer
FetchedMetadata ==
    {EmptyMetadata(Str(ImdbMatrix)),
     [EmptyMetadata(Str(ImdbMatrix)) EXCEPT !.title = Str(TitleMatrix), !.year = Str(<<"1","9","9","9">>)],
     [EmptyMetadata(Str(ImdbMatrix)) EXCEPT !.title = Str(TitleMatrix), !.year = Str(<<"1","9","9","9">>),
                                           !.akaTitles = <<<<"D","i","e"," ","M","a","t","r","i","x">>>>,
                                           !.tmdbId = Num(603)],
     [EmptyMetadata(Str(ImdbMatrix)) EXCEPT !.tmdbId = Num(603)]}

\* metadata = { title: ... } of a query made with a title: the other fields
\* are undefined, and akaTitles is read as [] (line 524)
TitleMetadata(title) ==
    [title |-> Str(title), year |-> Undef, akaTitles |-> <<>>, tmdbId |-> Undef,
     imdbId |-> Undef]

\* the metadata the call sites pass, each with its wasIdQuery
MetadataArguments ==
    {<<metadata, TRUE>> : metadata \in FetchedMetadata}
        \cup {<<TitleMetadata(TitleMatrix), FALSE>>}

\* lines 24-37: CURRENT_CONFIG with the defaults of the environment
DefaultExpressConfig ==
    [jackettUrl |-> <<"h","t","t","p",":","/","/","j">>, jackettApiKey |-> <<"k","e","y">>, omdbApiKey |-> <<"o","k">>,
     tmdbApiKey |-> <<"t","k">>,
     preferredResolutions |-> <<<<"2","1","6","0","p">>, <<"1","0","8","0","p">>, <<"7","2","0","p">>>>,
     preferredLanguages |-> <<<<"T","a","m","i","l">>, <<"H","i","n","d","i">>, <<"M","a","l","a","y","a","l","a","m">>, <<"T","e","l","u","g","u">>, <<"E","n","g","l","i","s","h">>,
                              <<"J","a","p","a","n","e","s","e">>, <<"K","o","r","e","a","n">>, <<"C","h","i","n","e","s","e">>>>,
     maxResults |-> 50, maxSize |-> 0, publicTrackersUrl |-> <<"h","t","t","p",":","/","/","t">>,
     logLevel |-> <<"i","n","f","o">>, filterBySeeders |-> 0, sortBy |-> <<"s","e","e","d","e","r","s">>]

(***************************************************************************)
(* server.js, the Express version: /manifest.json and /stream.             *)
(***************************************************************************)
\* String.prototype.startsWith
startsWith(str, prefix) ==
    Len(prefix) <= Len(str) /\ SubSeq(str, 1, Len(prefix)) = prefix

\* value.split(',').map(item => item.trim()).filter(Boolean)
ParseList(value) ==
    SelectSeq([k \in 1..Len(Split(value, ",")) |-> Trim(Split(value, ",")[k])],
              LAMBDA entry : entry # <<>>)

\* parseInt(value, 10) || fallback
ParsedOr(parsed, fallback) == IF Truthy(parsed) THEN parsed.n ELSE fallback

IntOr(value, fallback) ==
    IF value.t = "str" THEN ParsedOr(parseInt(value.s), fallback) ELSE fallback

\* a destructured query parameter with a default (process.env leaves it unset)
TextOr(value, fallback) == IF value.t = "undef" THEN fallback ELSE ToStr(value)

\* lines 638-667: the configuration a /manifest.json request installs
ManifestConfig(current, query) ==
    [jackettUrl |-> TextOr(query.jackettHost, current.jackettUrl),
     jackettApiKey |-> TextOr(query.jackettApiKey, current.jackettApiKey),
     omdbApiKey |-> TextOr(query.omdbApiKey, current.omdbApiKey),
     tmdbApiKey |-> TextOr(query.tmdbApiKey, current.tmdbApiKey),
     preferredResolutions |->
         IF query.preferredResolutions.t # "undef"
         THEN ParseList(query.preferredResolutions.s) ELSE current.preferredResolutions,
     preferredLanguages |->
         IF query.preferredLanguages.t # "undef"
         THEN ParseList(query.preferredLanguages.s) ELSE current.preferredLanguages,
     maxResults |-> IntOr(query.maxResults, current.maxResults),
     maxSize |-> IntOr(query.maxSize, current.maxSize),
     logLevel |-> TextOr(query.logLevel, current.logLevel),
     publicTrackersUrl |-> TextOr(query.publicTrackersUrl, current.publicTrackersUrl),
     filterBySeeders |-> IntOr(query.filterBySeeders, current.filterBySeeders),
     sortBy |-> IF Truthy(query.sortBy) THEN query.sortBy.s ELSE current.sortBy]

\* req.query of a /manifest.json request without parameters
EmptyQuery ==
    [jackettHost |-> Undef, jackettApiKey |-> Undef, omdbApiKey |-> Undef,
     tmdbApiKey |-> Undef, preferredResolutions |-> Undef, preferredLanguages |-> Undef,
     maxResults |-> Undef, maxSize |-> Undef, logLevel |-> Undef,
     publicTrackersUrl |-> Undef, filterBySeeders |-> Undef, sortBy |-> Undef]

\* the queries of the /manifest.json requests
ManifestQueries ==
    {EmptyQuery,
     [EmptyQuery EXCEPT !.preferredResolutions = Str(<<"1","0","8","0","p",","," ","2","1","6","0","p">>),
                        !.preferredLanguages = Str(<<"E","n","g","l","i","s","h",",">>),
                        !.maxResults = Str(<<"1">>), !.maxSize = Str(<<"1","0","0","0">>),
                        !.filterBySeeders = Str(<<"3","0">>), !.sortBy = Str(<<"s","c","o","r","e">>)],
     [EmptyQuery EXCEPT !.preferredResolutions = Str(<<>>),
                        !.preferredLanguages = Str(<<>>),
                        !.maxResults = Str(<<"0">>), !.maxSize = Str(<<"x">>),
                        !.sortBy = Str(<<"p","u","b","l","i","s","h","A","t">>)],
     \* the limits are switched off, as the configuration page describes it
     [EmptyQuery EXCEPT !.maxSize = Str(<<"0">>), !.filterBySeeders = Str(<<"0">>)],
     [EmptyQuery EXCEPT !.maxSize = Str(<<"0">>)],
     [EmptyQuery EXCEPT !.filterBySeeders = Str(<<"0">>)],
     \* defaults, spelled out
     [EmptyQuery EXCEPT !.maxResults = Str(<<"5","0">>), !.logLevel = Str(<<"i","n","f","o">>)]}

\* what the fetch of the tracker list yields: no list (a failure or an empty
\* text) or the trimmed lines of the text
ExpressTrackerOutcomes == {<<>>, <<<<"u","d","p",":","/","/","t",".","c","o",":","8","0">>>>}

\* 12 * 60 * 60 * 1000 milliseconds; the clock of the model counts hours
TRACKER_CACHE_TTL == 12

\* Date.now() when the server starts, and how far one step moves the clock
StartTime == 100

ClockStep == 6

\* how the fetch of a call ends: it fails (a rejection, or a status that is
\* not ok), or it yields the trimmed lines of the text, which can be none
TrackerResponses ==
    {[ok |-> FALSE, trackers |-> <<>>],
     [ok |-> TRUE, trackers |-> <<>>],
     [ok |-> TRUE, trackers |-> <<<<"u","d","p",":","/","/","t",".","c","o",":","8","0">>>>],
     [ok |-> TRUE, trackers |-> <<<<"u","d","p",":","/","/","o",".","i","o",":","1">>, <<"h","t","t","p",":","/","/","t",".","c","o","/","a">>>>]}

JACKETT_STREAM_FETCH_LIMIT == 200

\* the score is kept in tenths: Math.min(item.Seeders / 10, 5) is a fraction
TitleScore(normalizedItemTitle, primary, sameYear) ==
    IF primary # <<>> /\ Includes(normalizedItemTitle, primary) /\ sameYear THEN 1000
    ELSE IF primary # <<>> /\ Includes(normalizedItemTitle, primary) THEN 500
    ELSE 0

AkaScore(normalizedItemTitle, akaTitle, sameYear) ==
    IF akaTitle # <<>> /\ Includes(normalizedItemTitle, akaTitle) /\ sameYear THEN 400
    ELSE IF akaTitle # <<>> /\ Includes(normalizedItemTitle, akaTitle) THEN 200
    ELSE 0

RECURSIVE SumOf(_)
SumOf(numbers) == IF numbers = <<>> THEN 0 ELSE numbers[1] + SumOf(Tail(numbers))

\* lines 445-500 without the last two steps
RawScore(normalizedItemTitle, metadata, yearOfItem, titles, sameYear) ==
    TitleScore(normalizedItemTitle, titles[1], sameYear)
    + SumOf([k \in 1..(Len(titles) - 1) |->
                AkaScore(normalizedItemTitle, titles[k + 1], sameYear)])
    + (IF titles[1] # <<>> /\ normalizedItemTitle = titles[1] THEN 100 ELSE 0)
    + (IF containsImdbId(normalizedItemTitle, metadata) THEN 150 ELSE 0)
    + (IF containsTmdbId(normalizedItemTitle, metadata) THEN 100 ELSE 0)
    - (IF /\ Truthy(metadata.year) /\ Truthy(yearOfItem) /\ yearOfItem # metadata.year
          /\ \E k \in 1..Len(titles) : Includes(normalizedItemTitle, titles[k])
       THEN 300 ELSE 0)

Max(a, b) == IF a >= b THEN a ELSE b

\* calculateMatchScore(item, metadata), in tenths
calculateMatchScore(item, metadata) ==
    Max(0, RawScore(normalizeString(item.Title, TRUE), metadata, itemYearMatch(item.Title),
                    NormalizedTitles(metadata),
                    Truthy(metadata.year) /\ itemYearMatch(item.Title) = metadata.year)
           + (IF item.Seeders.n < 50 THEN item.Seeders.n ELSE 50))

\* the digits of hundredths after the point, as parseFloat prints them
Decimals(hundredths) ==
    IF hundredths = 0 THEN <<>>
    ELSE IF hundredths % 10 = 0 THEN <<".">> \o NumToString(hundredths \div 10)
    ELSE <<".">> \o PadStart0(NumToString(hundredths), 2)

\* i = Math.floor(Math.log(bytes) / Math.log(k))
RECURSIVE UnitIndex(_)
UnitIndex(bytes) == IF bytes < 1024 THEN 0 ELSE 1 + UnitIndex(bytes \div 1024)

RECURSIVE PowerOf1024(_)
PowerOf1024(i) == IF i = 0 THEN 1 ELSE 1024 * PowerOf1024(i - 1)

SizeUnits == <<<<"B","y","t","e","s">>, <<"K","B">>, <<"M","B">>, <<"G","B">>, <<"T","B">>>>

\* parseFloat(hundredths / 100) + ' ' + sizes[i]
FormatUnit(hundredths, unit) ==
    ((NumToString(hundredths \div 100) \o Decimals(hundredths % 100)) \o <<" ">>) \o unit

\* (bytes / Math.pow(k, i)).toFixed(2) in hundredths; the remainder is cut to
\* 1024ths of the unit before it is rounded
Hundredths(bytes, unit) ==
    IF unit = 1 THEN bytes * 100
    ELSE (bytes \div unit) * 100 + (((bytes % unit) \div (unit \div 1024)) * 100 + 512) \div 1024

\* formatBytes(bytes)
formatBytes(bytes) ==
    IF bytes = 0 THEN <<"0"," ","B","y","t","e","s">>
    ELSE FormatUnit(Hundredths(bytes, PowerOf1024(UnitIndex(bytes))),
                    SizeUnits[UnitIndex(bytes) + 1])

HexChars == SeqRange(DigitChars) \cup SeqRange(<<"a","b","c","d","e","f">>)

\* parseTorrent(magnetUri) of the parse-torrent package: the identifier of a
\* magnet URI is its btih value when that is 40 hexadecimal digits; any other
\* URI makes the call throw
parseTorrent(magnetUri) ==
    IF /\ magnetUri.t = "str"
       /\ Truthy(MagnetHash(magnetUri.s))
       /\ Len(MagnetHash(magnetUri.s).s) = 40
       /\ SeqRange(toLowerCase(MagnetHash(magnetUri.s).s)) \subseteq HexChars
    THEN [ok |-> TRUE, infoHash |-> toLowerCase(MagnetHash(magnetUri.s).s), announce |-> <<>>]
    ELSE [ok |-> FALSE, infoHash |-> <<>>, announce |-> <<>>]

\* [...new Set(list)]
RECURSIVE Unique(_)
Unique(list) ==
    IF list = <<>> THEN <<>>
    ELSE IF \E k \in 1..(Len(list) - 1) : list[k] = list[Len(list)]
         THEN Unique(SubSeq(list, 1, Len(list) - 1))
    ELSE Append(Unique(SubSeq(list, 1, Len(list) - 1)), list[Len(list)])

\* lines 409-418: the second part of the stream's title
Subtitle(tor) ==
    Join((IF tor.Seeders.t # "undef" THEN <<<<"S",":"," ">> \o ToStr(tor.Seeders)>> ELSE <<>>)
         \o (IF tor.Leechers.t # "undef" THEN <<<<"L",":"," ">> \o ToStr(tor.Leechers)>> ELSE <<>>)
         \o (IF Truthy(extractResolution(tor.Title))
             THEN <<extractResolution(tor.Title).s>> ELSE <<>>)
         \o (IF Truthy(extractLanguage(tor.Title))
             THEN <<extractLanguage(tor.Title).s>> ELSE <<>>)
         \o (IF Truthy(tor.Size) THEN <<formatBytes(tor.Size.n)>> ELSE <<>>),
         <<" ","/"," ">>)

\* the stream createStremioStream builds from a parsed magnet URI
StremioStream(tor, type, parsed, currentTrackers) ==
    [name |-> IF Truthy(tor.Tracker) THEN ToStr(tor.Tracker) ELSE <<"J","a","c","k","e","t","t">>,
     type |-> type,
     infoHash |-> parsed.infoHash,
     sources |-> Unique(([k \in 1..Len(parsed.announce) |-> <<"t","r","a","c","k","e","r",":">> \o parsed.announce[k]]
                         \o [k \in 1..Len(currentTrackers) |->
                                <<"t","r","a","c","k","e","r",":">> \o currentTrackers[k]])
                        \o <<<<"d","h","t",":">> \o parsed.infoHash>>),
     title |-> (ToStr(tor.Title)
                \o (IF Includes(ToStr(tor.Title), <<"\n">>) THEN <<"\r", "\n">>
                    ELSE <<"\r", "\n", "\r", "\n">>))
               \o Subtitle(tor)]

\* createStremioStream(tor, type, magnetUri, currentTrackers): the streams of
\* the links for which it returns no null
RECURSIVE StremioStreams(_, _, _)
StremioStreams(links, type, currentTrackers) ==
    IF links = <<>> THEN <<>>
    ELSE (IF parseTorrent(links[1].MagnetUri).ok
          THEN <<StremioStream(links[1], type, parseTorrent(links[1].MagnetUri),
                               currentTrackers)>>
          ELSE <<>>)
         \o StremioStreams(Tail(links), type, currentTrackers)

\* the /stream requests: a movie and an episode by IMDb id, an item of the
\* catalog, any other id
IdEpisode == <<"t","t","0","1","3","3","0","9","3",":","2",":","5">>
IdCatalog == <<"j","a","c","k","e","t","t",":","T","h","e","-","M","a","t","r","i","x","-","1","9","9","9","-","2","0">>
IdOther == <<"T","h","e"," ","M","a","t","r","i","x">>

StreamRequests ==
    {[type |-> "movie", id |-> ImdbMatrix], [type |-> "series", id |-> IdEpisode],
     [type |-> "movie", id |-> IdCatalog], [type |-> "movie", id |-> IdOther]}

\* decodeURIComponent over the escapes of PercentCodes
DecodeChar(text, hits) == IF hits = {} THEN <<text[1]>> ELSE <<PercentCodes[Min(hits)][1]>>

DecodeRest(text, hits) == IF hits = {} THEN Tail(text) ELSE SubSeq(text, 4, Len(text))

RECURSIVE decodeURIComponent(_)
RECURSIVE DecodeStep(_, _)
decodeURIComponent(text) ==
    IF text = <<>> THEN <<>>
    ELSE DecodeStep(text, {k \in 1..Len(PercentCodes) :
                              startsWith(text, PercentCodes[k][2])})

DecodeStep(text, hits) == DecodeChar(text, hits) \o decodeURIComponent(DecodeRest(text, hits))

\* line 1132: the title in an id of the catalog
CatalogTitle(id) ==
    decodeURIComponent(
        Join(SubSeq(Split(SubSeq(id, 9, Len(id)), "-"), 1,
                    Len(Split(SubSeq(id, 9, Len(id)), "-")) - 1),
             <<" ">>))

\* lines 985-992: season or episode of the request, null when the id has none
IdNumber(type, parts, at) ==
    IF type = "series" /\ Len(parts) >= 3 THEN parseInt(parts[at]) ELSE Null

\* S${String(season).padStart(2, '0')}E${String(episode).padStart(2, '0')}
EpisodeTag(season, episode) ==
    (<<"S">> \o PadStart0(ToStr(season), 2)) \o (<<"E">> \o PadStart0(ToStr(episode), 2))

\* lines 1023-1036: the queries made with one alternative title
AkaQueries(akaTitle, year, episodic, season, episode) ==
    (IF Truthy(year)
     THEN <<(akaTitle \o <<" ">>) \o ToStr(year)>>
          \o (IF episodic
              THEN <<((akaTitle \o <<" ">>) \o ToStr(year)) \o (<<" ">> \o EpisodeTag(season, episode))>>
              ELSE <<>>)
     ELSE <<>>)
    \o <<akaTitle>>
    \o (IF episodic THEN <<akaTitle \o (<<" ">> \o EpisodeTag(season, episode))>> ELSE <<>>)

RECURSIVE Flatten(_)
Flatten(lists) == IF lists = <<>> THEN <<>> ELSE lists[1] \o Flatten(Tail(lists))

\* lines 1007-1036: queriesToTry; every query has the category of the request
QueriesToTry(metadata, episodic, season, episode) ==
    (IF Truthy(metadata.title) /\ Truthy(metadata.year)
     THEN <<(ToStr(metadata.title) \o <<" ">>) \o ToStr(metadata.year)>>
          \o (IF episodic
              THEN <<ToStr(metadata.title) \o (<<" ">> \o EpisodeTag(season, episode)),
                     ((ToStr(metadata.title) \o <<" ","S","e","a","s","o","n"," ">>) \o ToStr(season))
                         \o (<<" ","E","p","i","s","o","d","e"," ">> \o ToStr(episode))>>
              ELSE <<>>)
     ELSE <<>>)
    \o (IF Truthy(metadata.title)
        THEN <<ToStr(metadata.title)>>
             \o (IF episodic
                 THEN <<ToStr(metadata.title) \o (<<" ">> \o EpisodeTag(season, episode))>>
                 ELSE <<>>)
        ELSE <<>>)
    \o Flatten([k \in 1..Len(metadata.akaTitles) |->
                   AkaQueries(metadata.akaTitles[k], metadata.year, episodic, season, episode)])

\* the metadata a /stream request can validate against
RouteMetadata ==
    FetchedMetadata \cup {TitleMetadata(CatalogTitle(IdCatalog)), TitleMetadata(IdOther)}

\* the configurations one more /manifest.json request can leave
Reconfigured(configs) ==
    configs \cup {ManifestConfig(before, query) : before \in configs, query \in ManifestQueries}

\* the configurations CURRENT_CONFIG can hold after some /manifest.json requests
RECURSIVE ConfigsAfter(_)
ConfigsAfter(requests) ==
    IF requests = 0 THEN {DefaultExpressConfig}
    ELSE Reconfigured(ConfigsAfter(requests - 1))

RouteConfigs == ConfigsAfter(MaxManifests)

\* validateJackettResult and calculateMatchScore over the items, the metadata
\* and the configurations of the requests
ValidatedResults ==
    [call \in ItemPool \X RouteMetadata \X BOOLEAN \X RouteConfigs |->
        validateJackettResult(call[1], call[2], call[3], call[4])]

MatchScores ==
    [call \in ItemPool \X RouteMetadata |-> calculateMatchScore(call[1], call[2])]

\* the items of the list that pass validateJackettResult
ValidatedOf(results, metadata, wasIdQuery, config) ==
    SelectSeq(results, LAMBDA item : ValidatedResults[<<item, metadata, wasIdQuery, config>>])

\* neither the raw results nor the relevant ones have reached their limit
MoreWanted(route, config) ==
    /\ Len(route.allJackettResults) < JACKETT_STREAM_FETCH_LIMIT
    /\ Len(ValidatedOf(route.allJackettResults, route.metadata, route.wasIdQuery, config))
          < route.threshold

\* lines 1051-1129: the query the handler awaits next, "none" when it goes on
\* to the filters; at is the index of the next title query
NextQuery(route, at, wanted) ==
    IF at <= Len(route.queries) /\ wanted THEN "title"
    ELSE IF route.stage \in {"title"} /\ wanted /\ Truthy(route.metadata.imdbId) THEN "imdb"
    ELSE IF route.stage \in {"title", "imdb"} /\ wanted /\ Truthy(route.metadata.tmdbId)
         THEN "tmdb"
    ELSE IF /\ route.stage \in {"title", "imdb", "tmdb"} /\ wanted
            /\ Trim(route.id) # <<>> /\ ~startsWith(route.id, <<"j","a","c","k","e","t","t",":">>)
         THEN "final"
    ELSE "none"

\* lines 1148-1156: the first item of every unique identifier; the mapped
\* items have no guid, so the identifier is the magnet URI
RECURSIVE Deduplicate(_)
Deduplicate(results) ==
    IF results = <<>> THEN <<>>
    ELSE IF \E k \in 1..(Len(results) - 1) :
                results[k].MagnetUri = results[Len(results)].MagnetUri
         THEN Deduplicate(SubSeq(results, 1, Len(results) - 1))
    ELSE Append(Deduplicate(SubSeq(results, 1, Len(results) - 1)), results[Len(results)])

\* new Date(item.PublishDate || 0).getTime()
PublishTime(item) ==
    IF Truthy(item.PublishDate) THEN getTime(item.PublishDate) ELSE Num(0)

\* b - a of two times; a comparator that returns NaN leaves the pair as it is
TimeDifference(a, b) == IF isNaN(a) \/ isNaN(b) THEN 0 ELSE b.n - a.n

\* lines 1183-1195: the comparator of the sort
ScoredCompare(a, b, metadata, sortBy) ==
    IF sortBy = <<"s","c","o","r","e">> /\ MatchScores[<<b, metadata>>] # MatchScores[<<a, metadata>>]
    THEN MatchScores[<<b, metadata>>] - MatchScores[<<a, metadata>>]
    ELSE IF sortBy = <<"s","e","e","d","e","r","s">> /\ b.Seeders.n # a.Seeders.n THEN b.Seeders.n - a.Seeders.n
    ELSE IF sortBy = <<"p","u","b","l","i","s","h","A","t">> /\ PublishTime(b) # PublishTime(a)
         THEN TimeDifference(PublishTime(a), PublishTime(b))
    ELSE IF MatchScores[<<b, metadata>>] # MatchScores[<<a, metadata>>]
         THEN MatchScores[<<b, metadata>>] - MatchScores[<<a, metadata>>]
    ELSE IF b.Seeders.n # a.Seeders.n THEN b.Seeders.n - a.Seeders.n
    ELSE TimeDifference(PublishTime(a), PublishTime(b))

\* Array.prototype.sort with that comparator is stable
InsertScored(sorted, el, metadata, sortBy) ==
    InsertAt(sorted, el,
             Min({k \in 1..Len(sorted) : ScoredCompare(el, sorted[k], metadata, sortBy) < 0}
                 \cup {Len(sorted) + 1}))

RECURSIVE SortScored(_, _, _)
SortScored(list, metadata, sortBy) ==
    IF list = <<>> THEN <<>>
    ELSE InsertScored(SortScored(SubSeq(list, 1, Len(list) - 1), metadata, sortBy),
                      list[Len(list)], metadata, sortBy)

\* .slice(0, count)
SliceTo(list, count) == SubSeq(list, 1, IF Len(list) < count THEN Len(list) ELSE count)

\* lines 1169-1198: the seeders filter, the sort and the cap
SortedAndScored(validated, metadata, config) ==
    SliceTo(SortScored(SelectSeq(validated,
                                 LAMBDA item : item.Seeders.n >= config.filterBySeeders),
                       metadata, config.sortBy),
            config.maxResults)

\* a variant of the reads of config that takes the process-wide configuration
ProcessConfig(route, current) == current

\* line 970: config is the copy of CURRENT_CONFIG made when the request came
RequestConfig(route, current) == route.config

\* no preference is configured
PermissiveConfig ==
    [DefaultExpressConfig EXCEPT !.preferredResolutions = <<>>,
                                 !.preferredLanguages = <<>>]

\* one resolution, one language, a size limit
StrictConfig ==
    [DefaultExpressConfig EXCEPT !.preferredResolutions = <<<<"1","0","8","0","p">>>>,
                                 !.preferredLanguages = <<<<"E","n","g","l","i","s","h">>>>,
                                 !.maxSize = 1000, !.maxResults = 1,
                                 !.filterBySeeders = 30, !.sortBy = <<"s","c","o","r","e">>]

ExpressConfigPool == {DefaultExpressConfig, PermissiveConfig, StrictConfig}

(***************************************************************************)
(* The state: the server's globals, one stream request, its worker.        *)
(***************************************************************************)
VARIABLES
    serverConfig,      \* the constants read from the environment
    publicTrackers,    \* the global tracker cache
    trackerFetch,      \* "pending" until fetchAndCacheTrackers has finished
    streamHandler,     \* the position and the locals of the stream handler
    workerThread,      \* the worker: its state, its inbox, what it handled and posted
    workerPromise,     \* the promise of processTorrentsInWorker
    mainEvents,        \* worker events queued for the main thread
    workersSpawned,    \* the number of new Worker(...) calls
    titleCall,         \* one call of validateTorrentTitle or standardizeTitle on its own
    relevanceCall,     \* one call of validateJackettResult on its own
    CURRENT_CONFIG,    \* Express version: the process-wide configuration
    cachedPublicTrackers, \* Express version: the tracker cache
    trackerFetches,    \* Express version: tracker fetches started and not awaited
    manifestRequests,  \* Express version: the /manifest.json requests served
    streamRoute,       \* Express version: one /stream request and its locals
    lastTrackersFetchTime, \* Express version: the time of the call that filled the cache
    clock,             \* Date.now(), in hours
    trackerCalls,      \* the calls of fetchAndCachePublicTrackers under the clock
    manifestCall       \* one /manifest.json request on a configuration of its own

\* the variables of the stream handler and of its worker
serverVars == <<serverConfig, publicTrackers, trackerFetch, streamHandler, workerThread,
                workerPromise, mainEvents, workersSpawned>>

\* the variables of the calls made outside a stream request
callVars == <<titleCall, relevanceCall, manifestCall>>

\* the clock and what fetchAndCachePublicTrackers keeps under it
trackerVars == <<lastTrackersFetchTime, clock, trackerCalls>>

\* the variables of the Express version
expressVars ==
    <<CURRENT_CONFIG, cachedPublicTrackers, trackerFetches, manifestRequests, streamRoute>>

vars == <<serverVars, callVars, expressVars, trackerVars>>

NoOutcome == [iterable |-> TRUE, items |-> <<>>]

NoMessage == [isArray |-> FALSE, items |-> <<>>, error |-> Undef]

\* no call of the worker's title functions on its own
NoTitleCall ==
    [op |-> "none", metadata |-> NullMetadata, season |-> Undef, episode |-> Undef,
     torrentTitle |-> <<>>, step |-> 0, verdict |-> FALSE,
     preferences |-> [PREFERRED_VIDEO_QUALITIES_CONFIG |-> <<>>,
                      PREFERRED_AUDIO_QUALITIES_CONFIG |-> <<>>],
     details |-> [resolution |-> Null, videoQuality |-> Null, audioQuality |-> Null,
                  language |-> Null],
     first |-> [standardizedTitle |-> <<>>, extractedYear |-> Null],
     second |-> [standardizedTitle |-> <<>>, extractedYear |-> Null]]

ServerInit ==
    /\ serverConfig \in ConfigPool
    /\ publicTrackers = <<>>
    /\ trackerFetch = "pending"
    /\ streamHandler = [pc |-> "idle", args |-> [type |-> "", id |-> <<>>],
                        season |-> Undef, episode |-> Undef, metadata |-> NullMetadata,
                        jackettQuery |-> <<>>, jackettResults |-> NoOutcome,
                        candidatesForFinalSort |-> <<>>,
                        returned |-> FALSE, streams |-> <<>>]
    /\ workerThread = [state |-> "none", inbox |-> <<>>, handled |-> <<>>, posted |-> <<>>]
    /\ workerPromise = [state |-> "none", value |-> NoMessage, settledBy |-> "none"]
    /\ mainEvents = <<>>
    /\ workersSpawned = 0

\* no call of validateJackettResult on its own
NoRelevanceCall ==
    [op |-> "none", item |-> BaseItem, metadata |-> EmptyMetadata(Null),
     wasIdQuery |-> FALSE, config |-> DefaultExpressConfig, step |-> 0, verdict |-> FALSE,
     score |-> 0]

\* no /stream request of the Express version
NoRoute ==
    [pc |-> "idle", type |-> "", id |-> <<>>, config |-> DefaultExpressConfig,
     season |-> Null, episode |-> Null, metadata |-> EmptyMetadata(Null),
     wasIdQuery |-> FALSE, threshold |-> 0, queries |-> <<>>, at |-> 0, stage |-> "none",
     allJackettResults |-> <<>>, sorted |-> <<>>, fetching |-> FALSE,
     currentTrackers |-> <<>>, status |-> 0, streams |-> <<>>]

\* the Express version after start
ExpressInit ==
    /\ CURRENT_CONFIG = DefaultExpressConfig
    /\ cachedPublicTrackers = <<>>
    /\ trackerFetches = 0
    /\ manifestRequests = 0
    /\ streamRoute = NoRoute
    /\ lastTrackersFetchTime = 0
    /\ clock = StartTime
    /\ trackerCalls = <<>>

\* no /manifest.json request on a configuration of its own
NoManifestCall ==
    [op |-> "none", current |-> DefaultExpressConfig, query |-> EmptyQuery, step |-> 0,
     config |-> DefaultExpressConfig]

Init ==
    /\ ServerInit
    /\ titleCall = NoTitleCall
    /\ relevanceCall = NoRelevanceCall
    /\ manifestCall = NoManifestCall
    /\ ExpressInit

\* fetchAndCacheTrackers, started once when the server starts
FetchAndCacheTrackers ==
    /\ trackerFetch = "pending"
    /\ \E fetched \in TrackerFetchOutcomes :
          publicTrackers' = IF fetched.ok THEN TrackerLines(fetched.text) ELSE <<>>
    /\ trackerFetch' = "done"
    /\ UNCHANGED <<callVars, trackerVars, expressVars, serverConfig, streamHandler, workerThread, workerPromise, mainEvents,
                   workersSpawned>>

\* the stream handler up to the await of the metadata
StreamRequest ==
    /\ streamHandler.pc = "idle"
    /\ \E args \in ArgsPool :
          streamHandler' = [streamHandler EXCEPT
              !.pc = "awaitMetadata", !.args = args,
              !.season = ParseSeason(args, 2), !.episode = ParseSeason(args, 3)]
    /\ UNCHANGED <<callVars, trackerVars, expressVars, serverConfig, publicTrackers, trackerFetch, workerThread, workerPromise,
                   mainEvents, workersSpawned>>

\* from Promise.allSettled to the await of jackettSearch
AfterMetadata ==
    /\ streamHandler.pc = "awaitMetadata"
    /\ \E settled \in MetadataOutcomes(streamHandler.args) :
          LET imdbId == Split(streamHandler.args.id, ":")[1]
              chosen == SelectMetadata(settled[1], settled[2], imdbId,
                                       streamHandler.args.type)
          IN streamHandler' = [streamHandler EXCEPT
                 !.pc = "awaitJackett", !.metadata = chosen,
                 !.jackettQuery = JackettQuery(chosen, streamHandler.season,
                                               streamHandler.episode)]
    /\ UNCHANGED <<callVars, trackerVars, expressVars, serverConfig, publicTrackers, trackerFetch, workerThread, workerPromise,
                   mainEvents, workersSpawned>>

\* the config object of worker.postMessage (lines 2667-2674)
WorkerConfig(cfg) ==
    [MINIMUM_SEEDERS |-> cfg.MINIMUM_SEEDERS,
     MIN_TORRENT_SIZE_MB |-> cfg.MIN_TORRENT_SIZE_MB,
     MAX_TORRENT_SIZE_MB |-> cfg.MAX_TORRENT_SIZE_MB,
     PREFERRED_LANGUAGES |-> cfg.PREFERRED_LANGUAGES,
     PREFERRED_VIDEO_QUALITIES_CONFIG |-> cfg.PREFERRED_VIDEO_QUALITIES_CONFIG,
     PREFERRED_AUDIO_QUALITIES_CONFIG |-> cfg.PREFERRED_AUDIO_QUALITIES_CONFIG]

\* the argument of worker.postMessage (lines 2662-2676)
WorkerMessage(found) ==
    [jackettResults |-> found, metadata |-> streamHandler.metadata,
     season |-> streamHandler.season, episode |-> streamHandler.episode,
     config |-> WorkerConfig(serverConfig), publicTrackers |-> publicTrackers]

\* processTorrentsInWorker: new Worker, the three listeners, worker.postMessage
SpawnWorker(found) ==
    /\ workerThread' =
          [state |-> "online", inbox |-> <<WorkerMessage(found)>>, handled |-> <<>>,
           posted |-> <<>>]
    /\ workerPromise' = [state |-> "pending", value |-> NoMessage, settledBy |-> "none"]
    /\ workersSpawned' = workersSpawned + 1

\* from the result of jackettSearch to the await of the worker's promise
AfterJackettSearch(pool) ==
    /\ streamHandler.pc = "awaitJackett"
    /\ \E found \in JackettOutcomes(pool) :
          /\ streamHandler' = [streamHandler EXCEPT !.pc = "awaitWorker",
                                                    !.jackettResults = found]
          /\ SpawnWorker(found)
    /\ UNCHANGED <<callVars, trackerVars, expressVars, serverConfig, publicTrackers, trackerFetch, mainEvents>>

Event(kind, message, code) == [kind |-> kind, message |-> message, code |-> code]

\* the worker's message handler, as a whole: one postMessage back
WorkerOnMessage ==
    /\ workerThread.state = "online"
    /\ workerThread.inbox # <<>>
    /\ \E reply \in {OnMessage(Head(workerThread.inbox))} :
          /\ workerThread' = [workerThread EXCEPT
                                  !.inbox = Tail(@),
                                  !.handled = Append(@, Head(workerThread.inbox)),
                                  !.posted = Append(@, reply)]
          /\ mainEvents' = Append(mainEvents, Event("message", reply, 0))
    /\ UNCHANGED <<callVars, trackerVars, expressVars, serverConfig, publicTrackers, trackerFetch, streamHandler, workerPromise,
                   workersSpawned>>

\* an uncaught exception in the worker thread before it has replied: 'error',
\* then 'exit' with code 1
WorkerError ==
    /\ workerThread.state = "online"
    /\ workerThread.inbox # <<>>
    /\ workerThread' = [workerThread EXCEPT !.state = "exited"]
    /\ mainEvents' = mainEvents \o <<Event("error", NoMessage, 0), Event("exit", NoMessage, 1)>>
    /\ UNCHANGED <<callVars, trackerVars, expressVars, serverConfig, publicTrackers, trackerFetch, streamHandler, workerPromise,
                   workersSpawned>>

\* the worker thread ends by itself, before it has replied, with an exit code
WorkerExit ==
    /\ workerThread.state = "online"
    /\ workerThread.inbox # <<>>
    /\ \E code \in {0, 1} :
          mainEvents' = Append(mainEvents, Event("exit", NoMessage, code))
    /\ workerThread' = [workerThread EXCEPT !.state = "exited"]
    /\ UNCHANGED <<callVars, trackerVars, expressVars, serverConfig, publicTrackers, trackerFetch, streamHandler, workerPromise,
                   workersSpawned>>

\* resolve and reject act on a pending promise only
Settle(promise, state, value, by) ==
    IF promise.state = "pending"
    THEN [state |-> state, value |-> value, settledBy |-> by]
    ELSE promise

\* worker.terminate(): a running worker ends, 'exit' follows with code 1
Terminate(events) ==
    /\ workerThread' = [workerThread EXCEPT !.state = "exited"]
    /\ mainEvents' = IF workerThread.state = "online"
                     THEN Append(events, Event("exit", NoMessage, 1))
                     ELSE events

\* the continuation of the handler runs before the next event is taken
ContinuationPending ==
    streamHandler.pc = "awaitWorker" /\ workerPromise.state \in {"resolved", "rejected"}

\* a variant of worker.on('message') that resolves whatever the message is
ResolveAlways(promise, message) == Settle(promise, "resolved", message, "message")

\* the promise after worker.on('message') has looked at message.error
MessageVerdict(promise, message) ==
    IF Truthy(message.error)
    THEN Settle(promise, "rejected", NoMessage, "message")
    ELSE Settle(promise, "resolved", message, "message")

\* worker.on('message', ...)
MainOnMessage ==
    /\ mainEvents # <<>> /\ Head(mainEvents).kind = "message"
    /\ ~ContinuationPending
    /\ workerPromise' = MessageVerdict(workerPromise, Head(mainEvents).message)
    /\ Terminate(Tail(mainEvents))
    /\ UNCHANGED <<callVars, trackerVars, expressVars, serverConfig, publicTrackers, trackerFetch, streamHandler, workersSpawned>>

\* worker.on('error', ...)
MainOnError ==
    /\ mainEvents # <<>> /\ Head(mainEvents).kind = "error"
    /\ ~ContinuationPending
    /\ workerPromise' = Settle(workerPromise, "rejected", NoMessage, "error")
    /\ Terminate(Tail(mainEvents))
    /\ UNCHANGED <<callVars, trackerVars, expressVars, serverConfig, publicTrackers, trackerFetch, streamHandler, workersSpawned>>

\* a variant of worker.on('exit') that resolves with nothing
ExitResolves(promise, code) == Settle(promise, "resolved", NoMessage, "exit")

\* the promise after worker.on('exit') has looked at the code
ExitVerdict(promise, code) ==
    IF code # 0 THEN Settle(promise, "rejected", NoMessage, "exit") ELSE promise

\* worker.on('exit', ...)
MainOnExit ==
    /\ mainEvents # <<>> /\ Head(mainEvents).kind = "exit"
    /\ ~ContinuationPending
    /\ workerPromise' = ExitVerdict(workerPromise, Head(mainEvents).code)
    /\ mainEvents' = Tail(mainEvents)
    /\ UNCHANGED <<callVars, trackerVars, expressVars, serverConfig, publicTrackers, trackerFetch, streamHandler, workerThread,
                   workersSpawned>>

\* catch (error) { return { streams: [] } }
CatchStreams == <<>>

\* what the handler returns: the catch's answer when the await or Stage 4 threw
ReturnedStreams(rejected, sorted, maxStreams, trackers) ==
    IF rejected \/ Stage4Throws(sorted, maxStreams) THEN CatchStreams
    ELSE Stage4(sorted, maxStreams, trackers)

\* from the settled promise to the return of the handler: sort, cap, format
AfterWorker ==
    /\ ContinuationPending
    /\ \E sorted \in {Sort(workerPromise.value.items)} :
          streamHandler' = [streamHandler EXCEPT
              !.pc = "done", !.returned = TRUE,
              !.candidatesForFinalSort =
                  IF workerPromise.state = "resolved" THEN sorted ELSE <<>>,
              !.streams = ReturnedStreams(workerPromise.state = "rejected", sorted,
                                          serverConfig.MAX_STREAMS, publicTrackers)]
    /\ UNCHANGED <<callVars, trackerVars, expressVars, serverConfig, publicTrackers, trackerFetch, workerThread, workerPromise,
                   mainEvents, workersSpawned>>

NextOver(pool) ==
    \/ FetchAndCacheTrackers
    \/ StreamRequest
    \/ AfterMetadata
    \/ AfterJackettSearch(pool)
    \/ WorkerOnMessage
    \/ WorkerError
    \/ WorkerExit
    \/ MainOnMessage
    \/ MainOnError
    \/ MainOnExit
    \/ AfterWorker

Next == NextOver(ResultPool)

Spec == Init /\ [][Next]_vars

NextSort == NextOver(SortPool)

SpecSort == Init /\ [][NextSort]_vars

NextFilters == NextOver(FilterPool)

SpecFilters == Init /\ [][NextFilters]_vars

NextIdentifiers == NextOver(IdentifierPool)

SpecIdentifiers == Init /\ [][NextIdentifiers]_vars

(***************************************************************************)
(* torrentProcessorWorker.js: validateTorrentTitle and standardizeTitle,   *)
(* each called on its own with arguments of its parameter types.           *)
(***************************************************************************)
\* the metadata argument: with and without a year, a year inside the title,
\* a series, an object without a title
MetadataPool ==
    {MatrixMetadata("movie"),
     [title |-> Str(TitleMatrix), year |-> Null, type |-> "movie"],
     [title |-> Str(TitleMatrixYear), year |-> Num(1999), type |-> "movie"],
     [title |-> Str(TitleShow), year |-> Num(2019), type |-> "series"],
     [title |-> Str(TitleMatrix), year |-> Num(1999), type |-> "series"],
     [title |-> Null, year |-> Null, type |-> "movie"]}

\* the season and episode arguments: both unknown, both known, one known
SeasonPool == {<<Undef, Undef>>, <<Num(2), Num(5)>>, <<Num(2), Undef>>}

\* PREFERRED_VIDEO_QUALITIES_CONFIG and PREFERRED_AUDIO_QUALITIES_CONFIG: the
\* defaults, two short lists in another order, the lists of empty variables
PreferencePool ==
    {[PREFERRED_VIDEO_QUALITIES_CONFIG |-> DefaultVideoQualities,
      PREFERRED_AUDIO_QUALITIES_CONFIG |-> DefaultAudioQualities],
     [PREFERRED_VIDEO_QUALITIES_CONFIG |-> <<<<"x","2","6","4">>, <<"x","2","6","5">>, <<"r","e","m","u","x">>>>,
      PREFERRED_AUDIO_QUALITIES_CONFIG |-> <<<<"d","t","s">>, <<"a","c","3">>>>],
     [PREFERRED_VIDEO_QUALITIES_CONFIG |-> <<<<"h","e","v","c">>>>,
      PREFERRED_AUDIO_QUALITIES_CONFIG |-> <<<<"m","p","3">>>>],
     [PREFERRED_VIDEO_QUALITIES_CONFIG |-> <<<<>>>>,
      PREFERRED_AUDIO_QUALITIES_CONFIG |-> <<<<>>>>]}

TitleCalls ==
    {[NoTitleCall EXCEPT !.op = "validate", !.metadata = md, !.season = se[1],
                         !.episode = se[2], !.torrentTitle = tt] :
         md \in MetadataPool, se \in SeasonPool, tt \in CallTitles}
    \cup {[NoTitleCall EXCEPT !.op = "standardize", !.torrentTitle = tt] : tt \in CallTitles}
    \cup {[NoTitleCall EXCEPT !.op = "parse", !.torrentTitle = tt, !.preferences = pr] :
             tt \in DetailTitles, pr \in PreferencePool}

InitCalls ==
    /\ ServerInit
    /\ titleCall \in TitleCalls
    /\ relevanceCall = NoRelevanceCall
    /\ manifestCall = NoManifestCall
    /\ ExpressInit

\* validateTorrentTitle(metadata, season, episode, torrentTitle)
ValidateTitle ==
    /\ titleCall.op = "validate" /\ titleCall.step = 0
    /\ titleCall' = [titleCall EXCEPT
           !.step = 1,
           !.verdict = validateTorrentTitle(titleCall.metadata, titleCall.season,
                                            titleCall.episode, titleCall.torrentTitle)]
    /\ UNCHANGED <<serverVars, expressVars, trackerVars, relevanceCall, manifestCall>>

\* standardizeTitle(title)
StandardizeFirst ==
    /\ titleCall.op = "standardize" /\ titleCall.step = 0
    /\ titleCall' = [titleCall EXCEPT !.step = 1,
                                      !.first = StandardizedTitle(titleCall.torrentTitle)]
    /\ UNCHANGED <<serverVars, expressVars, trackerVars, relevanceCall, manifestCall>>

\* standardizeTitle(standardizedTitle) on the text the first call returned
StandardizeSecond ==
    /\ titleCall.op = "standardize" /\ titleCall.step = 1
    /\ titleCall' = [titleCall EXCEPT
           !.step = 2, !.second = standardizeTitle(titleCall.first.standardizedTitle)]
    /\ UNCHANGED <<serverVars, expressVars, trackerVars, relevanceCall, manifestCall>>

\* parseTorrentDetails(torrentTitle)
ParseDetails ==
    /\ titleCall.op = "parse" /\ titleCall.step = 0
    /\ titleCall' = [titleCall EXCEPT
           !.step = 1,
           !.details = parseTorrentDetails(titleCall.torrentTitle, titleCall.preferences)]
    /\ UNCHANGED <<serverVars, expressVars, trackerVars, relevanceCall, manifestCall>>

NextCalls == ValidateTitle \/ StandardizeFirst \/ StandardizeSecond \/ ParseDetails

SpecCalls == InitCalls /\ [][NextCalls]_vars

\* the calls of validateJackettResult
RelevanceCalls ==
    {[op |-> "validate", item |-> item, metadata |-> arguments[1],
      wasIdQuery |-> arguments[2], config |-> config, step |-> 0, verdict |-> FALSE,
      score |-> 0] :
        item \in CallItems, arguments \in MetadataArguments, config \in ExpressConfigPool}

\* the calls of calculateMatchScore: the items that passed validateJackettResult
\* have a title, a magnet URI and seeders
ScoreCalls ==
    {[NoRelevanceCall EXCEPT !.op = "score", !.item = item, !.metadata = arguments[1],
                             !.wasIdQuery = arguments[2]] :
        item \in ItemPool, arguments \in MetadataArguments}

InitRelevance ==
    /\ ServerInit
    /\ titleCall = NoTitleCall
    /\ relevanceCall \in RelevanceCalls \cup ScoreCalls
    /\ manifestCall = NoManifestCall
    /\ ExpressInit

\* validateJackettResult(item, metadata, wasIdQuery, config)
ValidateResult ==
    /\ relevanceCall.op = "validate" /\ relevanceCall.step = 0
    /\ relevanceCall' = [relevanceCall EXCEPT
           !.step = 1,
           !.verdict = validateJackettResult(relevanceCall.item, relevanceCall.metadata,
                                             relevanceCall.wasIdQuery, relevanceCall.config)]
    /\ UNCHANGED <<serverVars, expressVars, trackerVars, titleCall, manifestCall>>

\* calculateMatchScore(item, metadata)
ScoreResult ==
    /\ relevanceCall.op = "score" /\ relevanceCall.step = 0
    /\ relevanceCall' = [relevanceCall EXCEPT
           !.step = 1,
           !.score = calculateMatchScore(relevanceCall.item, relevanceCall.metadata)]
    /\ UNCHANGED <<serverVars, expressVars, trackerVars, titleCall, manifestCall>>

NextRelevance ==
    \/ ValidateResult
    \/ ScoreResult

SpecRelevance == InitRelevance /\ [][NextRelevance]_vars

\* what fetchJackettResults yields: it throws, or returns the mapped items
JackettResponses ==
    {[ok |-> FALSE, Results |-> <<>>],
     [ok |-> TRUE,
      Results |-> <<BaseItem, ItemWithId, ItemWithBoth, ItemWithAka, ItemOfOtherYear>>],
     [ok |-> TRUE,
      Results |-> <<ItemOfOtherFilm, ItemWithTmdb, ItemWithBoth, ItemOfSameTorrent>>],
     \* one torrent as ten indexers list it
     [ok |-> TRUE, Results |-> [entry \in 1..10 |-> BaseItem]]}

\* fetchAndCachePublicTrackers up to its await: a fresh cache is returned as
\* it is, else a fetch starts
CacheIsFresh(fresh) == Len(cachedPublicTrackers) > 0 /\ fresh

\* lines 1148-1205: the filters, the sort and the cap, then the call of
\* fetchAndCachePublicTrackers; without results the response is sent at once
Filtered(route, config, fresh) ==
    IF Len(route.allJackettResults) > 0
    THEN [route EXCEPT
             !.pc = "trackers",
             !.sorted = SortedAndScored(ValidatedOf(route.allJackettResults, route.metadata,
                                                    route.wasIdQuery, config),
                                        route.metadata, config),
             !.fetching = ~CacheIsFresh(fresh),
             !.currentTrackers = cachedPublicTrackers]
    ELSE [route EXCEPT !.pc = "done", !.status = 200, !.streams = <<>>]

Finish(route, config, fresh) ==
    Filtered([route EXCEPT !.allJackettResults = Deduplicate(route.allJackettResults)],
             config, fresh)

\* the handler runs on to its next await
Advance(route, config, fresh, next) ==
    IF next = "none" THEN Finish(route, config, fresh)
    ELSE [route EXCEPT !.pc = "query", !.stage = next]

Proceed(route, config, fresh) ==
    Advance(route, config, fresh, NextQuery(route, route.at, MoreWanted(route, config)))

\* GET /manifest.json: CURRENT_CONFIG is replaced, a tracker fetch is started
\* and not awaited
ManifestRequest ==
    /\ manifestRequests < MaxManifests
    /\ manifestRequests' = manifestRequests + 1
    /\ \E query \in ManifestQueries :
          CURRENT_CONFIG' = ManifestConfig(CURRENT_CONFIG, query)
    /\ \E fresh \in BOOLEAN :
          trackerFetches' = IF CacheIsFresh(fresh) THEN trackerFetches ELSE trackerFetches + 1
    /\ UNCHANGED <<serverVars, callVars, trackerVars, cachedPublicTrackers, streamRoute>>

\* a tracker fetch that nobody awaits ends (lines 91-112)
TrackerFetchEnds ==
    /\ trackerFetches > 0
    /\ trackerFetches' = trackerFetches - 1
    /\ \E trackers \in ExpressTrackerOutcomes :
          cachedPublicTrackers' = IF Len(trackers) > 0 THEN trackers ELSE cachedPublicTrackers
    /\ UNCHANGED <<serverVars, callVars, trackerVars, CURRENT_CONFIG, manifestRequests, streamRoute>>

\* the route after const config = { ...CURRENT_CONFIG } and the parse of the id
Received(request, config, parts) ==
    [NoRoute EXCEPT !.type = request.type, !.id = request.id, !.config = config,
                    !.season = IdNumber(request.type, parts, 2),
                    !.episode = IdNumber(request.type, parts, 3)]

\* lines 972-1146 up to the first await
Started(route, baseImdbId) ==
    IF route.config.jackettUrl = <<>> \/ route.config.jackettApiKey = <<"Y","O","U","R","_","J","A","C","K","E","T","T","_","A","P","I","_","K","E","Y">>
    THEN [route EXCEPT !.pc = "done", !.status = 500]
    ELSE IF startsWith(baseImdbId, <<"t","t">>) THEN [route EXCEPT !.pc = "metadata"]
    ELSE IF startsWith(route.id, <<"j","a","c","k","e","t","t",":">>)
         THEN [route EXCEPT !.pc = "query", !.stage = "single",
                            !.metadata = TitleMetadata(CatalogTitle(route.id))]
    ELSE [route EXCEPT !.pc = "query", !.stage = "single",
                       !.metadata = TitleMetadata(route.id)]

\* GET /stream/:type/:id.json up to its first await
StreamRouteRequest ==
    /\ streamRoute.pc = "idle"
    /\ \E request \in StreamRequests :
          streamRoute' = Started(Received(request, CURRENT_CONFIG, Split(request.id, ":")),
                                 Split(request.id, ":")[1])
    /\ UNCHANGED <<serverVars, callVars, trackerVars, CURRENT_CONFIG, cachedPublicTrackers, trackerFetches,
                   manifestRequests>>

\* lines 999-1048: the metadata, the threshold and the queries
WithMetadata(route, fetched, config) ==
    [route EXCEPT
        !.metadata = [fetched EXCEPT !.imdbId = Str(Split(route.id, ":")[1])],
        !.wasIdQuery = TRUE,
        !.threshold = Max(config.maxResults, 10),
        !.queries = Unique(QueriesToTry(fetched,
                                        /\ route.type = "series"
                                        /\ Truthy(route.season) /\ Truthy(route.episode),
                                        route.season, route.episode)),
        !.at = 1,
        !.stage = "title"]

\* the handler after await fetchMetadataFromOmdbTmdb, up to its next await
RouteAfterMetadata ==
    /\ streamRoute.pc = "metadata"
    /\ \E fetched \in FetchedMetadata, fresh \in BOOLEAN :
          streamRoute' = Proceed(WithMetadata(streamRoute, fetched,
                                              RequestConfig(streamRoute, CURRENT_CONFIG)),
                                 RequestConfig(streamRoute, CURRENT_CONFIG), fresh)
    /\ UNCHANGED <<serverVars, callVars, trackerVars, CURRENT_CONFIG, cachedPublicTrackers, trackerFetches,
                   manifestRequests>>

\* the results of an awaited query join the list; a query that throws is
\* caught, and the next title query is due
WithResponse(route, response) ==
    [route EXCEPT
        !.allJackettResults = IF response.ok THEN @ \o response.Results ELSE @,
        !.at = IF route.stage = "title" THEN @ + 1 ELSE @]

\* lines 1130-1146: the one query of an id without 'tt' is not caught
AfterSingleQuery(route, response, config, fresh) ==
    IF response.ok
    THEN Finish([route EXCEPT !.allJackettResults = response.Results], config, fresh)
    ELSE [route EXCEPT !.pc = "rejected"]

\* the handler after await fetchJackettResults, up to its next await
RouteAfterQuery ==
    /\ streamRoute.pc = "query"
    /\ \E response \in JackettResponses, fresh \in BOOLEAN :
          /\ response.ok => Len(streamRoute.allJackettResults) < MaxFetched
          /\ streamRoute' =
              IF streamRoute.stage = "single"
              THEN AfterSingleQuery(streamRoute, response,
                                    RequestConfig(streamRoute, CURRENT_CONFIG), fresh)
              ELSE Proceed(WithResponse(streamRoute, response),
                           RequestConfig(streamRoute, CURRENT_CONFIG), fresh)
    /\ UNCHANGED <<serverVars, callVars, trackerVars, CURRENT_CONFIG, cachedPublicTrackers, trackerFetches,
                   manifestRequests>>

\* the trackers fetchAndCachePublicTrackers resolves with
ResolvedTrackers(route, trackers) ==
    IF ~route.fetching THEN route.currentTrackers
    ELSE IF Len(trackers) > 0 THEN trackers
    ELSE cachedPublicTrackers

\* lines 1201-1213: the streams and the response
Responded(route, currentTrackers) ==
    [route EXCEPT !.pc = "done", !.status = 200, !.currentTrackers = currentTrackers,
                  !.streams = StremioStreams(route.sorted, route.type, currentTrackers)]

\* the handler after await fetchAndCachePublicTrackers
RouteAfterTrackers ==
    /\ streamRoute.pc = "trackers"
    /\ \E trackers \in ExpressTrackerOutcomes :
          /\ cachedPublicTrackers' =
                 IF streamRoute.fetching /\ Len(trackers) > 0 THEN trackers
                 ELSE cachedPublicTrackers
          /\ streamRoute' = Responded(streamRoute, ResolvedTrackers(streamRoute, trackers))
    /\ UNCHANGED <<serverVars, callVars, trackerVars, CURRENT_CONFIG, trackerFetches, manifestRequests>>

NextExpress ==
    \/ ManifestRequest
    \/ TrackerFetchEnds
    \/ StreamRouteRequest
    \/ RouteAfterMetadata
    \/ RouteAfterQuery
    \/ RouteAfterTrackers

\* one configuration of the worker version: its variables do not move here
InitExpress == Init /\ serverConfig.MAX_STREAMS = MaxCap

SpecExpress == InitExpress /\ [][NextExpress]_vars

(***************************************************************************)
(* /manifest.json on the configurations that earlier requests leave.       *)
(***************************************************************************)
\* CURRENT_CONFIG before the request, and req.query
ManifestCalls ==
    {[NoManifestCall EXCEPT !.op = "manifest", !.current = current, !.query = query] :
        current \in ConfigsAfter(MaxManifests + 1), query \in ManifestQueries}

InitManifest ==
    /\ ServerInit
    /\ titleCall = NoTitleCall
    /\ relevanceCall = NoRelevanceCall
    /\ manifestCall \in ManifestCalls
    /\ ExpressInit

\* lines 638-667: CURRENT_CONFIG = { ... }
InstallConfig ==
    /\ manifestCall.op = "manifest" /\ manifestCall.step = 0
    /\ manifestCall' = [manifestCall EXCEPT
           !.step = 1,
           !.config = ManifestConfig(manifestCall.current, manifestCall.query)]
    /\ UNCHANGED <<serverVars, expressVars, trackerVars, titleCall, relevanceCall>>

NextManifest == InstallConfig

SpecManifest == InitManifest /\ [][NextManifest]_vars

(***************************************************************************)
(* fetchAndCachePublicTrackers under the clock: the calls of /manifest.json *)
(* are not awaited, so that several calls can be at their fetch at once.   *)
(***************************************************************************)
\* line 83: the cache is not empty and still fresh
StillFresh(currentTime) ==
    /\ Len(cachedPublicTrackers) > 0
    /\ currentTime - lastTrackersFetchTime < TRACKER_CACHE_TTL

\* lines 81-91: the call up to its return or to its await of the fetch
CallOf(caller, currentTime) ==
    [caller |-> caller, currentTime |-> currentTime,
     pc |-> IF StillFresh(currentTime) THEN "returned" ELSE "fetching",
     fetched |-> ~StillFresh(currentTime),
     response |-> [ok |-> FALSE, trackers |-> <<>>],
     returned |-> IF StillFresh(currentTime) THEN cachedPublicTrackers ELSE <<>>]

\* /manifest.json (line 670) or /stream (line 1201) calls fetchAndCachePublicTrackers
TrackersCallStarts ==
    /\ Len(trackerCalls) < MaxTrackerCalls
    /\ \E caller \in {"manifest", "stream"} :
          trackerCalls' = Append(trackerCalls, CallOf(caller, clock))
    /\ UNCHANGED <<serverVars, callVars, expressVars, lastTrackersFetchTime, clock>>

\* every list that was fetched is stored
StoresAny(response) == response.ok

\* line 99: a list that is not empty is stored
Stores(response) == response.ok /\ Len(response.trackers) > 0

\* lines 92-110: the call after its fetch
TrackersCallEnds ==
    \E k \in 1..Len(trackerCalls), response \in TrackerResponses :
        /\ trackerCalls[k].pc = "fetching"
        /\ cachedPublicTrackers' =
               IF Stores(response) THEN response.trackers ELSE cachedPublicTrackers
        /\ lastTrackersFetchTime' =
               IF Stores(response) THEN trackerCalls[k].currentTime
               ELSE lastTrackersFetchTime
        /\ trackerCalls' = [trackerCalls EXCEPT
               ![k] = [@ EXCEPT !.pc = "returned", !.response = response,
                                !.returned = cachedPublicTrackers']]
        /\ UNCHANGED <<serverVars, callVars, CURRENT_CONFIG, trackerFetches, manifestRequests,
                       streamRoute, clock>>

\* time passes
ClockTicks ==
    /\ clock < StartTime + MaxTicks * ClockStep
    /\ clock' = clock + ClockStep
    /\ UNCHANGED <<serverVars, callVars, expressVars, lastTrackersFetchTime, trackerCalls>>

NextTrackers ==
    \/ TrackersCallStarts
    \/ TrackersCallEnds
    \/ ClockTicks

SpecTrackers == InitExpress /\ [][NextTrackers]_vars

(***************************************************************************)
(* Properties of the worker's message handler.                             *)
(***************************************************************************)
\* the batch of the request and the message that carried it to the worker
Batch == streamHandler.jackettResults.items

Request == Head(workerThread.handled \o workerThread.inbox)

\* the worker has answered the request with a list
Answered == workerThread.posted # <<>> /\ workerThread.posted[1].isArray

Payload == workerThread.posted[1].items

\* the content identifier a record bears, lower-cased; <<>> when it bears none
IdentifierOf(result) ==
    IF RawInfoHash(result.InfoHash, result.MagnetUri).t = "str"
    THEN toLowerCase(RawInfoHash(result.InfoHash, result.MagnetUri).s)
    ELSE <<>>

\* C1: the success payload of a batch holds at most one stream per content
\* identifier, the identifiers compared after lower-casing
C1_OneStreamPerIdentifier ==
    Answered =>
        \A i, j \in 1..Len(Payload) :
            i # j => toLowerCase(Payload[i].infoHash) # toLowerCase(Payload[j].infoHash)

\* a batch with two records of one identifier, written in different case, has
\* been answered with a stream of that identifier
C1_Witness ==
    /\ Answered
    /\ \E i, j \in 1..Len(Batch) :
          /\ i < j
          /\ Batch[i].InfoHash # Batch[j].InfoHash
          /\ IdentifierOf(Batch[i]) # <<>>
          /\ IdentifierOf(Batch[i]) = IdentifierOf(Batch[j])
          /\ \E k \in 1..Len(Payload) : Payload[k].infoHash = IdentifierOf(Batch[i])

\* the first record of the batch that bears the identifier
FirstBearing(identifier) ==
    Batch[Min({k \in 1..Len(Batch) : IdentifierOf(Batch[k]) = identifier})]

\* the record passes every check of the loop body when nothing was seen before
PassesAlone(result) == TryResult(result, Request, {}).kind = "push"

\* C2 as stated: the stream kept for an identifier comes from the first record
\* of the batch that bears the identifier
C2_FirstBearingWins ==
    Answered =>
        \A k \in 1..Len(Payload) :
            Payload[k].originalResult = FirstBearing(Payload[k].infoHash)

\* C2: the stream kept for an identifier comes from the first record bearing it
\* that passes every check of the loop body, and no second stream has the
\* identifier
C2_FirstAcceptedWins ==
    Answered =>
        \A k \in 1..Len(Payload) :
            /\ Payload[k].originalResult =
                  Batch[Min({n \in 1..Len(Batch) :
                                /\ IdentifierOf(Batch[n]) = Payload[k].infoHash
                                /\ PassesAlone(Batch[n])})]
            /\ \A n \in 1..Len(Payload) : Payload[n].infoHash = Payload[k].infoHash => n = k

\* the first record bearing an identifier was rejected and a later record with
\* the identifier is in the payload, a third record with it is not
C2_Witness ==
    /\ Answered
    /\ Len(Batch) = 3
    /\ IdentifierOf(Batch[1]) = IdentifierOf(Batch[2])
    /\ IdentifierOf(Batch[2]) = IdentifierOf(Batch[3])
    /\ ~PassesAlone(Batch[1]) /\ PassesAlone(Batch[2]) /\ PassesAlone(Batch[3])
    /\ Batch[2] # Batch[3]
    /\ Len(Payload) = 1
    /\ Payload[1].originalResult = Batch[2]

\* processing the record throws inside the per-record try block
Faulty(result) == TryResult(result, Request, {}).kind = "throw"

\* the request with the faulty records taken out of its batch
RequestWithoutFaulty ==
    [Request EXCEPT !.jackettResults.items = SelectSeq(Batch, LAMBDA r : ~Faulty(r))]

\* C3: a record that throws is dropped alone: the worker posts a success
\* payload, the one it posts for the same batch without the faulty records
C3_FaultIsolation ==
    (workerThread.posted # <<>> /\ streamHandler.jackettResults.iterable) =>
        /\ workerThread.posted[1].isArray
        /\ workerThread.posted[1] = OnMessage(RequestWithoutFaulty)

\* a batch of three records, one of them faulty, has yielded two candidates
C3_Witness ==
    /\ Answered
    /\ Len(Batch) = 3
    /\ Cardinality({k \in 1..Len(Batch) : Faulty(Batch[k])}) = 1
    /\ Len(Payload) = 2

(***************************************************************************)
(* Properties of the exchange between the stream handler and its worker.   *)
(***************************************************************************)
\* C4: the worker posts one message for the request, a list or a failure; the
\* promise resolves with the list, empty or not, and rejects on the failure
C4_OneResponse ==
    /\ Len(workerThread.posted) <= 1
    /\ (workerThread.state # "none" /\ workerThread.inbox = <<>>) =>
           Len(workerThread.posted) = 1
    /\ \A k \in 1..Len(workerThread.posted) :
           /\ workerThread.posted[k].isArray # Truthy(workerThread.posted[k].error)
           /\ workerThread.posted[k].isArray = streamHandler.jackettResults.iterable
    /\ workerPromise.settledBy = "message" =>
           /\ workerThread.posted # <<>>
           /\ workerThread.posted[1].isArray =>
                  /\ workerPromise.state = "resolved"
                  /\ workerPromise.value = workerThread.posted[1]
           /\ Truthy(workerThread.posted[1].error) => workerPromise.state = "rejected"

\* the worker has answered a batch of records with the empty list and the
\* handler has returned from the resolved promise
C4_Witness ==
    /\ Answered
    /\ Batch # <<>>
    /\ Payload = <<>>
    /\ workerPromise.state = "resolved"
    /\ workerPromise.settledBy = "message"
    /\ streamHandler.returned

\* the handler waits for a promise that nothing is left to settle
WaitsForever ==
    /\ streamHandler.pc = "awaitWorker"
    /\ workerPromise.state = "pending"
    /\ workerThread.state = "exited"
    /\ mainEvents = <<>>

\* C5: no reachable state has the caller waiting forever, whatever the worker
\* does (reply, error event, exit with any code)
C5_NeverWaitsForever == ~WaitsForever

\* C6: an error event or a non-zero exit before the reply fails the batch: the
\* promise rejects, the handler returns no stream, one worker was spawned
C6_FailedBatch ==
    /\ workersSpawned <= 1
    /\ workerPromise.settledBy \in {"error", "exit"} =>
           /\ workerPromise.state = "rejected"
           /\ workerThread.posted = <<>>
           /\ streamHandler.returned =>
                  /\ streamHandler.streams = <<>>
                  /\ streamHandler.candidatesForFinalSort = <<>>
                  /\ workersSpawned = 1

\* the worker exited with a non-zero code before replying to a batch with an
\* acceptable record, and the handler has returned
C6_Witness ==
    /\ streamHandler.returned
    /\ workerPromise.settledBy = "exit"
    /\ workerPromise.state = "rejected"
    /\ \E k \in 1..Len(Batch) : PassesAlone(Batch[k])
    /\ streamHandler.streams = <<>>
    /\ workersSpawned = 1

(***************************************************************************)
(* Properties of the final ordering and of the cap.                        *)
(***************************************************************************)
\* the handler has returned from a list of candidates
Ranked == streamHandler.returned /\ workerPromise.state = "resolved"

Candidates == streamHandler.candidatesForFinalSort

\* the declared publish date in seconds, 0 when it is absent or unparsable
PublishedKey(stream) ==
    IF isNaN(getTime(stream.originalResult.PublishedDate)) THEN 0
    ELSE getTime(stream.originalResult.PublishedDate).n

\* the key tuple of the ordering, most significant key first
KeyTuple(stream) ==
    <<stream.originalResult.Seeders.n, PublishedKey(stream),
      IF Truthy(stream.hasPreferredLanguage) THEN 1 ELSE 0,
      stream.resolutionRank, stream.videoQualityRank, stream.audioQualityRank,
      stream.originalResult.Seeders.n>>

\* x is smaller than y in the lexicographic order of the tuples
KeyLess(x, y) ==
    \E k \in 1..Len(x) : x[k] < y[k] /\ \A m \in 1..(k - 1) : x[m] = y[m]

\* where the stream of the identifier stood in the worker's payload
PayloadPosition(infoHash) ==
    Min({k \in 1..Len(Payload) : Payload[k].infoHash = infoHash})

SameUpToLanguage(a, b) ==
    /\ a.originalResult.Seeders = b.originalResult.Seeders
    /\ PublishedKey(a) = PublishedKey(b)
    /\ Truthy(a.hasPreferredLanguage) = Truthy(b.hasPreferredLanguage)

\* C8: of two candidates with the same seed count, publish date and language
\* match, the one with the higher resolution rank is placed first
C8_RankMonotonicity ==
    Ranked =>
        \A i, j \in 1..Len(Candidates) :
            (/\ SameUpToLanguage(Candidates[i], Candidates[j])
             /\ Candidates[i].resolutionRank > Candidates[j].resolutionRank) => i < j

\* two such candidates came back from the worker with the lower resolution
\* first and were swapped
C8_Witness ==
    /\ Ranked
    /\ \E i, j \in 1..Len(Candidates) :
          /\ i < j
          /\ SameUpToLanguage(Candidates[i], Candidates[j])
          /\ Candidates[i].resolutionRank > Candidates[j].resolutionRank
          /\ PayloadPosition(Candidates[i].infoHash) > PayloadPosition(Candidates[j].infoHash)

HasValidDate(result) == ~isNaN(getTime(result.PublishedDate))

\* the record with another declared publish date
Redated(result, date) == [result EXCEPT !.PublishedDate = date]

\* C10: a record without a valid publish date is not dropped for that, and
\* among candidates of equal seed count it stands behind every candidate that
\* has a valid publish date
C10_UndatedLast ==
    /\ \A k \in 1..Len(workerThread.handled) :
           \A n \in 1..Len(Batch) :
               PassesAlone(Redated(Batch[n], Null)) = PassesAlone(Batch[n])
    /\ Ranked =>
           \A i, j \in 1..Len(Candidates) :
               (/\ Candidates[i].originalResult.Seeders = Candidates[j].originalResult.Seeders
                /\ HasValidDate(Candidates[i].originalResult)
                /\ ~HasValidDate(Candidates[j].originalResult)) => i < j

(***************************************************************************)
(* Properties of validateTorrentTitle and standardizeTitle.                *)
(***************************************************************************)
\* validateTorrentTitle has returned for a metadata object that has a title
Validated ==
    titleCall.op = "validate" /\ titleCall.step = 1 /\ titleCall.metadata.title.t = "str"

\* part occurs in whole as a run of consecutive characters
IsSubstring(part, whole) ==
    \E at \in 0..(Len(whole) - Len(part)) : SubSeq(whole, at + 1, at + Len(part)) = part

\* the normalized expected title occurs in the normalized raw title
ExpectedInRaw ==
    IsSubstring(StandardizedTitle(titleCall.metadata.title.s).standardizedTitle,
                StandardizedTitle(titleCall.torrentTitle).standardizedTitle)

\* C11: when the normalized expected title is no substring of the normalized
\* raw title the validator returns false, for a movie and for a series, with
\* any year, season and episode
C11_SubstringLaw == (Validated /\ ~ExpectedInRaw) => ~titleCall.verdict

\* a series call with season and episode known whose raw title does not hold
\* the expected title has returned false
C11_Witness ==
    /\ Validated /\ ~ExpectedInRaw
    /\ titleCall.metadata.type = "series"
    /\ titleCall.season.t = "num" /\ titleCall.episode.t = "num"
    /\ titleCall.torrentTitle = TitleEpisode5
    /\ ~titleCall.verdict

\* the years written in the title: four digits between characters that are
\* neither letters nor digits
YearsIn(title) ==
    {ParseDigits(SubSeq(title, at, at + 3)) :
        at \in {n \in 1..(Len(title) - 3) :
                   /\ \A m \in n..(n + 3) : IsDigit(title[m])
                   /\ (n = 1 \/ ~IsWordChar(title[n - 1]))
                   /\ (n + 3 = Len(title) \/ ~IsWordChar(title[n + 4]))}}

\* C12: for a movie whose metadata carries a year, a raw title that holds the
\* expected title and a year, but not the expected year, is rejected
C12_YearMismatchRejects ==
    (/\ Validated /\ ExpectedInRaw
     /\ titleCall.metadata.type = "movie"
     /\ titleCall.metadata.year.t = "num"
     /\ YearsIn(titleCall.torrentTitle) # {}
     /\ titleCall.metadata.year.n \notin YearsIn(titleCall.torrentTitle))
        => ~titleCall.verdict

\* the marker s<SS>e<EE> of the requested season and episode
EpisodeMarker ==
    (<<"s">> \o PadStart0(NumToString(titleCall.season.n), 2))
        \o (<<"e">> \o PadStart0(NumToString(titleCall.episode.n), 2))

\* C13: for a series with season and episode known, a raw title that holds
\* the expected title is accepted when it carries the marker of the requested
\* episode and rejected when it does not
C13_EpisodeMarker ==
    (/\ Validated /\ ExpectedInRaw
     /\ titleCall.metadata.type = "series"
     /\ titleCall.season.t = "num" /\ titleCall.episode.t = "num")
        => (titleCall.verdict = IsSubstring(EpisodeMarker, toLowerCase(titleCall.torrentTitle)))

\* C19: standardizeTitle applied to the text it returned gives the result of
\* the first application
C19_Idempotent ==
    (titleCall.op = "standardize" /\ titleCall.step = 2) => titleCall.second = titleCall.first

\* the record declares no language and none is detected in its title
UnknownLanguage(result) ==
    /\ result.Title.t = "str"
    /\ ~Truthy(result.Language)
    /\ ~Truthy(getTorrentLanguage(result.Title.s))

\* the request with an empty language allow-list
RequestAnyLanguage == [Request EXCEPT !.config.PREFERRED_LANGUAGES = <<>>]

\* C14: with a non-empty language allow-list, a record of unknown language
\* that passes every other check of the loop body has a stream in the payload
C14_UnknownIsPermitted ==
    (Answered /\ Len(Request.config.PREFERRED_LANGUAGES) > 0) =>
        \A n \in 1..Len(Batch) :
            (/\ UnknownLanguage(Batch[n])
             /\ TryResult(Batch[n], RequestAnyLanguage, {}).kind = "push")
                => \E k \in 1..Len(Payload) : Payload[k].infoHash = IdentifierOf(Batch[n])

\* the declared field of the source record behind a consolidated field
DeclaredField(result, field) ==
    CASE field = "resolution" -> result.Resolution
      [] field = "videoQuality" -> result.Quality
      [] field = "audioQuality" -> result.AudioChannels
      [] field = "language" -> result.Language

DetailFields == {"resolution", "videoQuality", "audioQuality", "language"}

\* the declared field when it is non-empty, else the value parsed from the title
ExpectedDetail(result, field) ==
    IF Truthy(DeclaredField(result, field)) THEN DeclaredField(result, field)
    ELSE parseTorrentDetails(result.Title.s, Request.config)[field]

\* the consolidated values of the stream are the expected ones and its ranks,
\* its language flag and the filters it passed are computed from them
UsesConsolidated(stream) ==
    /\ \A field \in DetailFields :
          stream.parsedDetails[field] = ExpectedDetail(stream.originalResult, field)
    /\ stream.resolutionRank =
          getResolutionRank(ExpectedDetail(stream.originalResult, "resolution"))
    /\ stream.videoQualityRank =
          getVideoQualityRank(ExpectedDetail(stream.originalResult, "videoQuality"),
                              Request.config)
    /\ stream.audioQualityRank =
          getAudioQualityRank(ExpectedDetail(stream.originalResult, "audioQuality"),
                              Request.config)
    /\ stream.resolutionRank >= 2
    /\ Len(Request.config.PREFERRED_LANGUAGES) > 0 =>
          /\ ExpectedDetail(stream.originalResult, "language").t = "str"
          /\ ArrIncludes(Request.config.PREFERRED_LANGUAGES,
                         ExpectedDetail(stream.originalResult, "language").s)
          /\ Truthy(stream.hasPreferredLanguage)

\* the title of the returned stream shows the consolidated resolution
ShowsResolution(stream, shown) ==
    Truthy(ExpectedDetail(stream.originalResult, "resolution")) =>
        IsSubstring(<<" ","|"," ">> \o toUpperCase(ExpectedDetail(stream.originalResult,
                                                         "resolution").s) \o <<" ","|"," ">>,
                    shown.title)

\* C16: each of resolution, video quality, audio quality and language of a
\* candidate stream is the declared field of its record when that is non-empty
\* and the title-derived value otherwise; the filters, the ranks and the
\* returned stream use that value
C16_DeclaredFieldsWin ==
    /\ Answered => \A k \in 1..Len(Payload) : UsesConsolidated(Payload[k])
    /\ Ranked => \A k \in 1..Len(streamHandler.streams) :
                     ShowsResolution(Candidates[k], streamHandler.streams[k])

\* a returned stream whose record declares a resolution other than the one in
\* its title and takes its video quality from the title
C16_Witness ==
    /\ Ranked
    /\ \E k \in 1..Len(streamHandler.streams) :
          LET result == Candidates[k].originalResult
              fromTitle == parseTorrentDetails(result.Title.s, Request.config)
          IN /\ Truthy(result.Resolution)
             /\ Truthy(fromTitle.resolution)
             /\ result.Resolution # fromTitle.resolution
             /\ Candidates[k].parsedDetails.resolution = result.Resolution
             /\ ~Truthy(result.Quality)
             /\ Truthy(Candidates[k].parsedDetails.videoQuality)

\* the characters of the text from position p up to the next '&' or '/'
Segment(text, p) ==
    SubSeq(text, p,
           Min({q \in p..(Len(text) + 1) : q = Len(text) + 1 \/ text[q] \in {"&", "/"}}) - 1)

\* the first non-empty btih: segment of the URI, empty when there is none
BtihSegment(uri) ==
    LET starts == {p \in 6..Len(uri) :
                      SubSeq(uri, p - 5, p - 1) = <<"b","t","i","h",":">> /\ Segment(uri, p) # <<>>}
    IN IF starts = {} THEN <<>> ELSE Segment(uri, Min(starts))

\* the identifier of the record: its InfoHash, else the btih: segment of its
\* MagnetUri, in lower case; empty when there is none
ContentIdentifier(result) ==
    IF Truthy(result.InfoHash) THEN toLowerCase(result.InfoHash.s)
    ELSE IF result.MagnetUri.t = "str" THEN toLowerCase(BtihSegment(result.MagnetUri.s))
    ELSE <<>>

\* C17: the identifier of a stream is the lower-cased InfoHash of its record
\* when that is present and else the lower-cased btih: segment of its
\* MagnetUri; a record without identifier has no stream in the payload
C17_IdentifierDerivation ==
    Answered =>
        /\ \A k \in 1..Len(Payload) :
              /\ Payload[k].infoHash = ContentIdentifier(Payload[k].originalResult)
              /\ Payload[k].infoHash # <<>>
        /\ \A n \in 1..Len(Batch) :
              ContentIdentifier(Batch[n]) = <<>> =>
                  \A k \in 1..Len(Payload) : Payload[k].originalResult # Batch[n]

\* a batch of a record with both fields, one without identifier and one with
\* the magnet URI only: the payload holds the first and the third
C17_Witness ==
    /\ Answered
    /\ Len(Batch) = 3
    /\ Truthy(Batch[1].InfoHash) /\ Truthy(Batch[1].MagnetUri)
    /\ BtihSegment(Batch[1].MagnetUri.s) # <<>>
    /\ toLowerCase(BtihSegment(Batch[1].MagnetUri.s)) # toLowerCase(Batch[1].InfoHash.s)
    /\ ~Truthy(Batch[2].InfoHash) /\ ContentIdentifier(Batch[2]) = <<>>
    /\ ~Truthy(Batch[3].InfoHash) /\ ContentIdentifier(Batch[3]) # <<>>
    /\ Len(Payload) = 2
    /\ Payload[1].infoHash = toLowerCase(Batch[1].InfoHash.s)
    /\ Payload[2].infoHash = toLowerCase(BtihSegment(Batch[3].MagnetUri.s))

\* the record with the empty string for its title
WithEmptyTitle(result) == [result EXCEPT !.Title = Str(<<>>)]

\* C20: a record whose Title is missing or null does not throw in the loop
\* body and fares as the same record with the empty title
C20_MissingTitleIsEmpty ==
    Answered =>
        \A n \in 1..Len(Batch) :
            Batch[n].Title.t \in {"null", "undef"} =>
                /\ ~Faulty(Batch[n])
                /\ TryResult(Batch[n], Request, {}).kind
                      = TryResult(WithEmptyTitle(Batch[n]), Request, {}).kind

\* the call of validateJackettResult has returned
Checked == relevanceCall.op = "validate" /\ relevanceCall.step = 1

\* the raw title of the item holds the requested IMDb identifier
HoldsIdentifier ==
    /\ relevanceCall.item.Title.t = "str"
    /\ relevanceCall.metadata.imdbId.t = "str"
    /\ IsSubstring(relevanceCall.metadata.imdbId.s, relevanceCall.item.Title.s)

\* C15: with wasIdQuery, an item with a magnet URI whose title holds the
\* requested identifier is accepted when no preference is configured, whether
\* or not a known title is part of its title
C15_IdentifierSuffices ==
    (/\ Checked
     /\ relevanceCall.wasIdQuery
     /\ Truthy(relevanceCall.item.MagnetUri)
     /\ HoldsIdentifier
     /\ relevanceCall.config = PermissiveConfig)
        => relevanceCall.verdict

\* the results of the request that pass validateJackettResult and the seeders
\* threshold of a configuration
Passing(route, config) ==
    SelectSeq(route.allJackettResults,
              LAMBDA item :
                  /\ ValidatedResults[<<item, route.metadata, route.wasIdQuery, config>>]
                  /\ item.Seeders.n >= config.filterBySeeders)

\* the links of the request are the first config.maxResults of the passing
\* results in the order of config.sortBy
Governs(route, config, passing) ==
    /\ Len(route.sorted) = IF Len(passing) < config.maxResults THEN Len(passing)
                           ELSE config.maxResults
    /\ \A k \in 1..Len(route.sorted) : \E j \in 1..Len(passing) : route.sorted[k] = passing[j]
    /\ \A k \in 1..(Len(route.sorted) - 1) :
          ScoredCompare(route.sorted[k], route.sorted[k + 1], route.metadata, config.sortBy) <= 0
    /\ \A j \in 1..Len(passing) :
          (\E k \in 1..Len(route.sorted) : route.sorted[k] = passing[j])
              \/ (/\ Len(route.sorted) > 0
                  /\ ScoredCompare(route.sorted[Len(route.sorted)], passing[j],
                                   route.metadata, config.sortBy) <= 0)
    /\ route.wasIdQuery => route.threshold = Max(config.maxResults, 10)
    /\ Len(route.streams) <= config.maxResults

GovernedBy(route, config) == Governs(route, config, Passing(route, config))

\* the request has filtered, sorted and capped its results
Filtering == streamRoute.pc \in {"trackers", "done"}

Scored == relevanceCall.op = "score" /\ relevanceCall.step = 1

\* the contributions the claim lists, in tenths of a point
ListedContributions(normalizedItemTitle, titles, metadata, yearOfItem, sameYear) ==
    (IF titles[1] # <<>> /\ Includes(normalizedItemTitle, titles[1])
     THEN (IF sameYear THEN 1000 ELSE 500) ELSE 0)
    + SumOf([k \in 1..(Len(titles) - 1) |->
                IF titles[k + 1] # <<>> /\ Includes(normalizedItemTitle, titles[k + 1])
                THEN (IF sameYear THEN 400 ELSE 200) ELSE 0])
    + (IF /\ Truthy(metadata.imdbId)
          /\ Includes(normalizedItemTitle, normalizeString(metadata.imdbId, TRUE))
       THEN 150 ELSE 0)
    - (IF /\ Truthy(metadata.year) /\ Truthy(yearOfItem) /\ yearOfItem # metadata.year
          /\ \E k \in 1..Len(titles) : Includes(normalizedItemTitle, titles[k])
       THEN 300 ELSE 0)

ListedScore(item, metadata) ==
    Max(0, ListedContributions(normalizeString(item.Title, TRUE), NormalizedTitles(metadata),
                               metadata, itemYearMatch(item.Title),
                               Truthy(metadata.year) /\ itemYearMatch(item.Title) = metadata.year)
           + (IF item.Seeders.n < 50 THEN item.Seeders.n ELSE 50))

\* C21: calculateMatchScore returns max(0, S), S being the sum of the listed
\* contributions and of no other: +100 or +50 for the expected title, +40 or
\* +20 per alternate title, +15 for the identifier, -30 for a disagreeing
\* year on a matched title, + min(seeders / 10, 5)
C21_ListedContributionsOnly ==
    Scored => relevanceCall.score = ListedScore(relevanceCall.item, relevanceCall.metadata)

\* the /stream request has sent its response with streams
Streamed == streamRoute.pc = "done" /\ streamRoute.status = 200

\* C22: the response of /stream holds at most one stream per info-hash, over
\* the results merged from all the queries of the request
C22_OneStreamPerInfoHash ==
    Streamed =>
        \A k \in 1..Len(streamRoute.streams) : \A j \in 1..Len(streamRoute.streams) :
            streamRoute.streams[k].infoHash = streamRoute.streams[j].infoHash => k = j

\* the call of parseTorrentDetails has returned
Parsed == titleCall.op = "parse" /\ titleCall.step = 1

\* the quality the claim names for the matches of a title and a preference list
ClaimedQuality(matches, preferred, quality) ==
    /\ Len(matches) = 0 => quality = Null
    /\ \A k \in 1..Len(preferred) :
          (/\ \E j \in 1..Len(matches) : matches[j] = preferred[k]
           /\ \A earlier \in 1..(k - 1) :
                 \A j \in 1..Len(matches) : matches[j] # preferred[earlier])
              => quality = Str(preferred[k])
    /\ (/\ Len(matches) > 0
        /\ \A k \in 1..Len(preferred) : \A j \in 1..Len(matches) : matches[j] # preferred[k])
          => quality = Str(matches[1])

\* C23: of the video-quality (audio-quality) tokens matched in a title,
\* parseTorrentDetails returns the one that comes first in the ordered
\* preference list; if none of them is in the list, the first match in title
\* order; if nothing matched, null
C23_PreferredQuality ==
    Parsed =>
        /\ ClaimedQuality(TitleMatchesOf(titleCall.torrentTitle).videoQualityMatches,
                          titleCall.preferences.PREFERRED_VIDEO_QUALITIES_CONFIG,
                          titleCall.details.videoQuality)
        /\ ClaimedQuality(TitleMatchesOf(titleCall.torrentTitle).audioQualityMatches,
                          titleCall.preferences.PREFERRED_AUDIO_QUALITIES_CONFIG,
                          titleCall.details.audioQuality)

\* a title with several video and several audio tokens, for which the
\* preferred token is not the first one of the title
C23_Witness ==
    /\ Parsed
    /\ Len(TitleMatchesOf(titleCall.torrentTitle).videoQualityMatches) > 1
    /\ Len(TitleMatchesOf(titleCall.torrentTitle).audioQualityMatches) > 1
    /\ titleCall.details.videoQuality
          # Str(TitleMatchesOf(titleCall.torrentTitle).videoQualityMatches[1])
    /\ titleCall.details.audioQuality
          # Str(TitleMatchesOf(titleCall.torrentTitle).audioQualityMatches[1])

\* the main thread takes the first of the worker's events that wait; a
\* listener that calls terminate() on a running worker queues its exit
TakesEvent ==
    /\ mainEvents # <<>>
    /\ \/ mainEvents' = Tail(mainEvents)
       \/ /\ workerThread.state = "online" /\ workerThread'.state = "exited"
          /\ mainEvents' = Append(Tail(mainEvents), Event("exit", NoMessage, 1))

\* C25: the promise of processTorrentsInWorker is settled once, with the
\* outcome of the first of the worker's message, error and exit events: the
\* event taken while the promise is pending settles it, and an event taken
\* later, such as the exit that follows terminate(), leaves it as it is
C25_SettledOnceByFirstEvent ==
    [][TakesEvent =>
          IF workerPromise.state = "pending"
          THEN /\ workerPromise'.state # "pending"
               /\ workerPromise'.settledBy = Head(mainEvents).kind
          ELSE workerPromise' = workerPromise]_vars

\* the filters of the loop body, on a stream, its source record and the
\* configuration of the request
MeetsFilters(stream, result, request, config) ==
    /\ result.Title.t = "str"
    /\ ~Includes(toLowerCase(result.Title.s), <<"t","s">>)
    /\ ~Includes(toLowerCase(result.Title.s), <<"t","e","l","e","c","i","n","e">>)
    /\ getResolutionRank(stream.parsedDetails.resolution) >= getResolutionRank(Str(<<"7","2","0","p">>))
    /\ stream.resolutionRank >= getResolutionRank(Str(<<"7","2","0","p">>))
    /\ result.Seeders.n >= config.MINIMUM_SEEDERS
    /\ result.Size.n \div 1048576 >= config.MIN_TORRENT_SIZE_MB
    /\ (result.Size.n + 1048575) \div 1048576 <= config.MAX_TORRENT_SIZE_MB
    /\ validateTorrentTitle(request.metadata, request.season, request.episode, result.Title.s)
    /\ Len(config.PREFERRED_LANGUAGES) > 0 =>
          /\ stream.parsedDetails.language.t = "str"
          /\ \E k \in 1..Len(config.PREFERRED_LANGUAGES) :
                config.PREFERRED_LANGUAGES[k] = stream.parsedDetails.language.s

\* C29: every stream of the worker's success payload meets all the filters of
\* the loop: no 'ts' and no 'telecine' in its lower-cased title, a resolution
\* rank of 720p at least, seeders of MINIMUM_SEEDERS at least, a size in MB
\* from MIN_TORRENT_SIZE_MB to MAX_TORRENT_SIZE_MB, a title that passes
\* validateTorrentTitle, a language of PREFERRED_LANGUAGES when that list is
\* not empty
C29_PayloadMeetsFilters ==
    Answered =>
        \A k \in 1..Len(Payload) :
            MeetsFilters(Payload[k], Payload[k].originalResult, Request, Request.config)

\* the record fails the filters with the configuration of the request
FailsFilters(result) == TryResult(result, Request, {}).kind = "continue"

\* a batch of three records, two of which fail a filter, answered with the
\* stream of the third, under a configuration with a size limit of 1000 MB,
\* a seeders minimum and a language list
C29_Witness ==
    /\ Answered
    /\ Len(Batch) = 3 /\ Len(Payload) = 1
    /\ Request.config.MINIMUM_SEEDERS > 0
    /\ Len(Request.config.PREFERRED_LANGUAGES) > 0
    /\ \E k \in 1..3 : Batch[k] = ResultLarge /\ FailsFilters(Batch[k])
    /\ \E k \in 1..3 : Batch[k] = ResultUnseeded /\ FailsFilters(Batch[k])
    /\ Payload[1].originalResult = ResultBluRay

\* the value hasPreferredLanguage has for every stream of the request
BatchLanguageFlag ==
    IF Len(Request.config.PREFERRED_LANGUAGES) > 0 THEN JsTrue ELSE JsFalse

\* the comparator comes to its language key for the two streams
SameSeedersAndDate(a, b) ==
    a.originalResult.Seeders = b.originalResult.Seeders /\ DateKey(a) = DateKey(b)

\* C30: all the streams of one batch carry the same hasPreferredLanguage,
\* true when PREFERRED_LANGUAGES is not empty and false when it is empty, so
\* the language key of the final comparator decides between no two of them
C30_UniformLanguageFlag ==
    /\ Answered =>
          \A k \in 1..Len(Payload) : Payload[k].hasPreferredLanguage = BatchLanguageFlag
    /\ Ranked =>
          \A k \in 1..Len(Candidates) : \A j \in 1..Len(Candidates) :
              Truthy(Candidates[k].hasPreferredLanguage)
                  = Truthy(Candidates[j].hasPreferredLanguage)

\* the handler has sorted two streams that the comparator tells apart no
\* sooner than at its language key, one with a language and one without
C30_Witness ==
    /\ Ranked
    /\ \E k \in 1..Len(Candidates) : \E j \in 1..Len(Candidates) :
          /\ SameSeedersAndDate(Candidates[k], Candidates[j])
          /\ Truthy(Candidates[k].parsedDetails.language)
          /\ ~Truthy(Candidates[j].parsedDetails.language)

(***************************************************************************)
(* Properties of /manifest.json.                                           *)
(***************************************************************************)
\* the request has installed its configuration
Installed == manifestCall.op = "manifest" /\ manifestCall.step = 1

\* C24: a /manifest.json request that carries maxSize=0 leaves maxSize 0 in
\* the configuration, whatever maxSize was before, and one that carries
\* filterBySeeders=0 leaves filterBySeeders 0
C24_ZeroSwitchesOff ==
    Installed =>
        /\ manifestCall.query.maxSize = Str(<<"0">>) => manifestCall.config.maxSize = 0
        /\ manifestCall.query.filterBySeeders = Str(<<"0">>)
               => manifestCall.config.filterBySeeders = 0

(***************************************************************************)
(* Properties of fetchAndCachePublicTrackers.                              *)
(***************************************************************************)
\* the fetch of call k has come to nothing: it failed, or its list is empty
CameToNothing(call) == ~call.response.ok \/ call.response.trackers = <<>>

\* C27: a call whose fetch fails or yields an empty list leaves
\* cachedPublicTrackers and lastTrackersFetchTime as they are and returns the
\* cached list; a call that finds the cache not empty and younger than the
\* TTL issues no fetch; so a cache that is not empty never becomes empty
C27_CacheNeverWorsens ==
    [][/\ \A k \in 1..Len(trackerCalls) :
             (/\ trackerCalls[k].pc = "fetching"
              /\ trackerCalls'[k].pc = "returned"
              /\ CameToNothing(trackerCalls'[k]))
                 => /\ cachedPublicTrackers' = cachedPublicTrackers
                    /\ lastTrackersFetchTime' = lastTrackersFetchTime
                    /\ trackerCalls'[k].returned = cachedPublicTrackers
       /\ (/\ Len(trackerCalls') = Len(trackerCalls) + 1
           /\ Len(cachedPublicTrackers) > 0
           /\ clock - lastTrackersFetchTime < TRACKER_CACHE_TTL)
              => /\ ~trackerCalls'[Len(trackerCalls')].fetched
                 /\ trackerCalls'[Len(trackerCalls')].pc = "returned"
                 /\ trackerCalls'[Len(trackerCalls')].returned = cachedPublicTrackers
       /\ Len(cachedPublicTrackers) > 0 => Len(cachedPublicTrackers') > 0]_vars

\* one call has returned the cached list after a fetch that came to nothing,
\* another has found the cache fresh
C27_Witness ==
    /\ \E k \in 1..Len(trackerCalls) :
          /\ trackerCalls[k].fetched /\ trackerCalls[k].pc = "returned"
          /\ CameToNothing(trackerCalls[k])
          /\ Len(trackerCalls[k].returned) > 0
    /\ \E k \in 1..Len(trackerCalls) : ~trackerCalls[k].fetched

\* C28: lastTrackersFetchTime never decreases, however the calls of
\* fetchAndCachePublicTrackers interleave
C28_FetchTimeNeverDecreases ==
    [][lastTrackersFetchTime' >= lastTrackersFetchTime]_vars

(***************************************************************************)
(* Properties of the /stream route as a whole.                             *)
(***************************************************************************)
\* the handler is at an await, from which it goes on when what it awaits settles
AtAwait == streamRoute.pc \in {"metadata", "query", "trackers"}

\* the handler has sent its one response
Answered200Or500 == streamRoute.pc = "done" /\ streamRoute.status \in {200, 500}

\* C26: every /stream request that has arrived is answered in the end, on each
\* branch of the handler and whether its Jackett queries succeed or throw: a
\* request is either answered or its handler is still at an await, it never
\* ends without a response
C26_AnsweredOrRunning ==
    streamRoute.pc # "idle" => AtAwait \/ Answered200Or500

====
